---- MODULE Spec2Model ----
(***************************************************************************)
(* Model of the dynamic UI protocol of the ADK UI React client:            *)
(*   - App.tsx (src/unnamed/part_000): findComponents,                     *)
(*     tryParseJsonWithComponents, ensureSession, handleUiAction,          *)
(*     handleSend and the SSE stream loop;                                 *)
(*   - adk-ui-renderer (types.ts): uiEventToMessage and the                *)
(*     ComponentRenderer's button / card form handling.                    *)
(* Texts are TLA+ strings; JSON.parse is a character-level parser of the   *)
(* JSON subset the modelled payloads use (objects, arrays, strings with    *)
(* the escapes \" \\ \n, non-negative integers, true, false, null).        *)
(***************************************************************************)
EXTENDS Integers, Sequences, FiniteSets, TLC

VARIABLES
    fnArg,          \* argument of the pure function under check
    fnOut,          \* its result, or Pending before the call
    messages,       \* App state: the conversation
    input,          \* App state: the text of the input box
    sessionId,      \* App state: null or the session id
    isLoading,      \* App state: a turn is in progress
    abortRef,       \* abortRef.current: null or the latest AbortController
    aborted,        \* the AbortControllers whose abort() has been called
    handler,        \* the handler of the latest turn: "send", "ui" or "none"
    pc,             \* where that handler waits: "session", "fetch", "read"; "idle"
    buffer,         \* local of the stream loop: the incomplete last line
    fullText,       \* local of the stream loop: the accumulated narrative
    uiComponents,   \* local of the stream loop: the candidate component tree
    nturns,         \* number of turns started
    ndeliveries,    \* number of chunks, ends of body and failures delivered
    records,        \* history: the payloads the latest turn has processed
    outcome,        \* history: how the latest turn ended
    lastCall,       \* history: the latest call of a handler while a stream was open
    doneAt,         \* history: the records processed before the first [DONE] line, or -1
    consoleErrors,  \* the console.error calls of the latest turn
    shown,          \* history: the contents the latest turn passed to setMessages
    rendered,       \* React: the state values the handlers of the latest render close over
    streams,        \* React: the handler calls that passed the guard, one record each
    component,      \* Renderer: the component rendered
    formValues,     \* Renderer: the values of its form controls
    dispatched,     \* Renderer: the events passed to onAction
    activeTab,      \* Renderer: the activeTab state of a rendered tabs component
    agents,         \* Canvas: currentProject.agents, the agents by id
    edges,          \* Canvas: currentProject.workflow.edges
    selectedNodeId, \* Canvas: the store's selected node, or null
    building,       \* Canvas state: a build is running
    builtBinaryPath, \* Canvas state: null or the path of the built binary
    buildOutput,    \* Canvas state: null or the outcome shown of the latest build
    eventSources,   \* Canvas: the build streams opened by handleBuild
    edits,          \* history: the number of agent and tool-config updates made
    builtEdits,     \* history: the updates made when the build of the binary started, or -1
    lastCreated     \* history: the createAgent calls made, the ids the latest added, those that existed

fnVars == <<fnArg, fnOut>>

appVars ==
    <<messages, input, sessionId, isLoading, abortRef, aborted, handler, pc,
      buffer, fullText, uiComponents, nturns, ndeliveries, records, outcome, lastCall,
      doneAt, consoleErrors, shown>>

renderVars == <<component, formValues, dispatched, activeTab>>

raceVars == <<rendered, streams>>

canvasVars ==
    <<agents, edges, selectedNodeId, building, builtBinaryPath, buildOutput,
      eventSources, edits, builtEdits, lastCreated>>

vars ==
    <<fnArg, fnOut, messages, input, sessionId, isLoading, abortRef, aborted,
      handler, pc, buffer, fullText, uiComponents, nturns, ndeliveries, records,
      outcome, lastCall, doneAt, consoleErrors, shown, rendered, streams,
      component, formValues, dispatched, activeTab, agents, edges, selectedNodeId,
      building, builtBinaryPath, buildOutput, eventSources, edits, builtEdits,
      lastCreated>>

Pending == [st |-> "pending"]

\* no pure function under check
FnIdle == fnArg = Pending /\ fnOut = Pending

\* the App after construction (null is the record [j |-> "null"])
AppIdle ==
    /\ messages = <<>>
    /\ input = ""
    /\ sessionId = [j |-> "null"]
    /\ isLoading = FALSE
    /\ abortRef = [j |-> "null"]
    /\ aborted = {}
    /\ handler = "none"
    /\ pc = "idle"
    /\ buffer = ""
    /\ fullText = ""
    /\ uiComponents = <<>>
    /\ nturns = 0
    /\ ndeliveries = 0
    /\ records = <<>>
    /\ outcome = [kind |-> "none"]
    /\ lastCall = [handler |-> "none"]
    /\ doneAt = -1
    /\ consoleErrors = 0
    /\ shown = <<>>

\* no component rendered
RenderIdle ==
    /\ component = [j |-> "null"]
    /\ formValues = <<>>
    /\ dispatched = <<>>
    /\ activeTab = 0

\* the first render, no handler called
RaceIdle == rendered = [isLoading |-> FALSE, input |-> ""] /\ streams = <<>>

\* the canvas of a project without agents; nothing built
CanvasIdle ==
    /\ agents = <<>>
    /\ edges = <<>>
    /\ selectedNodeId = [j |-> "null"]
    /\ building = FALSE
    /\ builtBinaryPath = [j |-> "null"]
    /\ buildOutput = [j |-> "null"]
    /\ eventSources = <<>>
    /\ edits = 0
    /\ builtEdits = -1
    /\ lastCreated = [n |-> 0, ids |-> {}, existing |-> {}]

(***************************************************************************)
(* JavaScript values as produced by JSON.parse.                            *)
(***************************************************************************)
JNull == [j |-> "null"]
JBool(b) == [j |-> "bool", b |-> b]
JNum(n) == [j |-> "num", n |-> n]
JStr(s) == [j |-> "str", s |-> s]
JArr(a) == [j |-> "arr", a |-> a]
JObj(o) == [j |-> "obj", o |-> o]
Prop(k, v) == [k |-> k, v |-> v]

\* typeof x === 'object' && x !== null
IsObjectLike(x) == x.j \in {"obj", "arr"}

\* key in obj (own enumerable property of a parsed object)
HasKey(x, key) == x.j = "obj" /\ \E i \in 1..Len(x.o) : x.o[i].k = key

\* obj[key]; only used under HasKey
Get(x, key) == x.o[CHOOSE i \in 1..Len(x.o) : x.o[i].k = key].v

\* Object.values(x): property values in insertion order, array elements in
\* index order (the modelled payloads use no integer-like keys)
ObjectValues(x) ==
    IF x.j = "arr" THEN x.a
    ELSE IF x.j = "obj" THEN [i \in 1..Len(x.o) |-> x.o[i].v]
    ELSE <<>>

\* undefined: the value of a property that is absent
JUndef == [j |-> "undef"]

\* x == null (null or undefined)
Nullish(x) == x.j \in {"null", "undef"}

\* x.key for a named property of a non-nullish x (the keys read by the code are
\* no properties of strings, numbers, booleans or arrays)
Member(x, key) == IF HasKey(x, key) THEN Get(x, key) ELSE JUndef

\* for (const e of x) is possible: arrays and strings are iterable
Iterable(x) == x.j \in {"arr", "str"}

\* the values a for...of loop over x visits
Iterate(x) ==
    IF x.j = "arr" THEN x.a
    ELSE [i \in 1..Len(x.s) |-> JStr(SubSeq(x.s, i, i))]

\* JavaScript truthiness of a parsed value
Truthy(x) ==
    CASE x.j = "null" -> FALSE
      [] x.j = "undef" -> FALSE
      [] x.j = "bool" -> x.b
      [] x.j = "num" -> x.n # 0
      [] x.j = "str" -> x.s # ""
      [] OTHER -> TRUE

(***************************************************************************)
(* JSON.parse: a recursive-descent parser over the characters of a text.   *)
(* A parse result is [ok |-> FALSE] (JSON.parse throws SyntaxError) or     *)
(* [ok |-> TRUE, v |-> value, i |-> index after the value].                *)
(***************************************************************************)
Ch(s, i) == IF i >= 1 /\ i <= Len(s) THEN SubSeq(s, i, i) ELSE ""

IsWs(c) == c \in {" ", "\n", "\t", "\r"}

IsDigit(c) == c \in {"0", "1", "2", "3", "4", "5", "6", "7", "8", "9"}

DigitVal(c) == CHOOSE d \in 0..9 : Ch("0123456789", d + 1) = c

ParseFail == [ok |-> FALSE]

ParseOk(v, i) == [ok |-> TRUE, v |-> v, i |-> i]

RECURSIVE SkipWs(_, _)
SkipWs(s, i) == IF i <= Len(s) /\ IsWs(Ch(s, i)) THEN SkipWs(s, i + 1) ELSE i

\* the least and the greatest element of a non-empty set of integers
Min(S) == CHOOSE m \in S : \A n \in S : m <= n

Max(S) == CHOOSE m \in S : \A n \in S : m >= n

\* the concatenation of the texts pieces[lo], ..., pieces[hi]
RECURSIVE Concat(_, _, _)
Concat(pieces, lo, hi) ==
    IF lo > hi THEN ""
    ELSE IF lo = hi THEN pieces[lo]
    ELSE LET mid == (lo + hi) \div 2 IN
         Concat(pieces, lo, mid) \o Concat(pieces, mid + 1, hi)

\* inside a string literal that starts at i: the character at k follows a
\* backslash that is not itself escaped, so it is the second character of an
\* escape
RECURSIVE Escaped(_, _, _)
Escaped(s, i, k) == k > i /\ Ch(s, k - 1) = "\\" /\ ~Escaped(s, i, k - 1)

\* the first index k in lo..hi with P(k), or hi + 1
First(P(_), lo, hi) ==
    IF \E k \in lo..hi : P(k)
    THEN CHOOSE k \in lo..hi : P(k) /\ \A m \in lo..(k - 1) : ~P(m)
    ELSE hi + 1

\* a local constant: body applied to the value bound to it
With(value, body(_)) == body(value)

\* the characters of a string literal after its opening quote at i - 1
ScanString(s, i) ==
    LET bad(k) == IF Escaped(s, i, k)
                  THEN Ch(s, k) \notin {"\"", "\\", "/", "n", "t"}
                  ELSE Ch(s, k) \in {"\n", "\t", "\r"}
        piece(k) == IF Escaped(s, i, k)
                    THEN CASE Ch(s, k) = "n" -> "\n"
                           [] Ch(s, k) = "t" -> "\t"
                           [] OTHER -> Ch(s, k)
                    ELSE IF Ch(s, k) = "\\" THEN "" ELSE Ch(s, k)
        literal(end) ==
            IF end > Len(s) THEN ParseFail
            ELSE IF \E k \in i..(end - 1) : bad(k) THEN ParseFail
            ELSE ParseOk(Concat([k \in 1..(end - i) |-> piece(i + k - 1)], 1, end - i),
                         end + 1)
    IN  literal(First(LAMBDA k : Ch(s, k) = "\"" /\ ~Escaped(s, i, k), i, Len(s)))

\* the digits of a number after its first digit
RECURSIVE ScanDigits(_, _, _)
ScanDigits(s, i, acc) ==
    IF IsDigit(Ch(s, i)) THEN ScanDigits(s, i + 1, acc * 10 + DigitVal(Ch(s, i)))
    ELSE ParseOk(JNum(acc), i)

ScanNumber(s, i) ==
    IF Ch(s, i) = "0"
    THEN IF IsDigit(Ch(s, i + 1)) THEN ParseFail ELSE ParseOk(JNum(0), i + 1)
    ELSE ScanDigits(s, i + 1, DigitVal(Ch(s, i)))

\* obj[k] = v while parsing: a repeated key keeps its place, the last value wins
PutProp(o, k, v) ==
    IF \E i \in 1..Len(o) : o[i].k = k
    THEN [i \in 1..Len(o) |-> IF o[i].k = k THEN Prop(k, v) ELSE o[i]]
    ELSE Append(o, Prop(k, v))

RECURSIVE ParseValue(_, _), ParseMembers(_, _, _), ParseElements(_, _, _)
ParseValue(s, i0) ==
    LET object(k) == IF Ch(s, k) = "}" THEN ParseOk(JObj(<<>>), k + 1)
                     ELSE ParseMembers(s, k, <<>>)
        array(k) == IF Ch(s, k) = "]" THEN ParseOk(JArr(<<>>), k + 1)
                    ELSE ParseElements(s, k, <<>>)
        string(r) == IF r.ok THEN ParseOk(JStr(r.v), r.i) ELSE ParseFail
        value(i, c) ==
            CASE c = "{" -> object(SkipWs(s, i + 1))
              [] c = "[" -> array(SkipWs(s, i + 1))
              [] c = "\"" -> string(ScanString(s, i + 1))
              [] c = "t" ->
                   IF i + 3 <= Len(s) /\ SubSeq(s, i, i + 3) = "true"
                   THEN ParseOk(JBool(TRUE), i + 4) ELSE ParseFail
              [] c = "f" ->
                   IF i + 4 <= Len(s) /\ SubSeq(s, i, i + 4) = "false"
                   THEN ParseOk(JBool(FALSE), i + 5) ELSE ParseFail
              [] c = "n" ->
                   IF i + 3 <= Len(s) /\ SubSeq(s, i, i + 3) = "null"
                   THEN ParseOk(JNull, i + 4) ELSE ParseFail
              [] IsDigit(c) -> ScanNumber(s, i)
              [] OTHER -> ParseFail
        at(i) == value(i, Ch(s, i))
    IN  at(SkipWs(s, i0))

\* "key": value pairs up to the closing brace; i is at the next key
ParseMembers(s, i, acc) ==
    LET next(k, acc2) ==
            IF Ch(s, k) = "," THEN ParseMembers(s, SkipWs(s, k + 1), acc2)
            ELSE IF Ch(s, k) = "}" THEN ParseOk(JObj(acc2), k + 1)
            ELSE ParseFail
        afterValue(key, val) ==
            IF ~val.ok THEN ParseFail
            ELSE next(SkipWs(s, val.i), PutProp(acc, key.v, val.v))
        colon(key, c) ==
            IF Ch(s, c) # ":" THEN ParseFail
            ELSE afterValue(key, ParseValue(s, c + 1))
        afterKey(key) ==
            IF ~key.ok THEN ParseFail ELSE colon(key, SkipWs(s, key.i))
    IN  IF Ch(s, i) # "\"" THEN ParseFail ELSE afterKey(ScanString(s, i + 1))

\* array elements up to the closing bracket; i is at the next element
ParseElements(s, i, acc) ==
    LET next(k, acc2) ==
            IF Ch(s, k) = "," THEN ParseElements(s, SkipWs(s, k + 1), acc2)
            ELSE IF Ch(s, k) = "]" THEN ParseOk(JArr(acc2), k + 1)
            ELSE ParseFail
        afterValue(val) ==
            IF ~val.ok THEN ParseFail
            ELSE next(SkipWs(s, val.i), Append(acc, val.v))
    IN  afterValue(ParseValue(s, i))

JSONparse(s) ==
    LET whole(r) == IF r.ok /\ SkipWs(s, r.i) = Len(s) + 1
                    THEN [ok |-> TRUE, v |-> r.v] ELSE ParseFail
    IN  whole(ParseValue(s, 1))

(***************************************************************************)
(* findComponents (App.tsx): recursive search for a `components` array.    *)
(***************************************************************************)
\* findComponents with the loop returning what the first value yields, empty or not
RECURSIVE findComponentsFirstValue(_)
findComponentsFirstValue(obj) ==
    IF ~IsObjectLike(obj) THEN <<>>
    ELSE IF HasKey(obj, "components") /\ Get(obj, "components").j = "arr"
         THEN Get(obj, "components").a
         ELSE IF Len(ObjectValues(obj)) = 0 THEN <<>>
              ELSE findComponentsFirstValue(ObjectValues(obj)[1])

RECURSIVE findComponents(_), findInValues(_, _)
findComponents(obj) ==
    IF ~IsObjectLike(obj) THEN <<>>
    ELSE IF HasKey(obj, "components") /\ Get(obj, "components").j = "arr"
         THEN Get(obj, "components").a
         ELSE findInValues(ObjectValues(obj), 1)

\* the for loop over Object.values(obj), from index i on
findInValues(values, i) ==
    LET result(found) == IF Len(found) > 0 THEN found ELSE findInValues(values, i + 1)
    IN  IF i > Len(values) THEN <<>> ELSE result(findComponents(values[i]))

(***************************************************************************)
(* tryParseJsonWithComponents (App.tsx): the regular expression            *)
(*   /\{[^{}]*"components"\s*:\s*\[[^\]]*\][^{}]*\}/g                      *)
(* matched on the characters of the text, then JSON.parse of each match,   *)
(* then JSON.parse of the whole text.                                      *)
(***************************************************************************)
ComponentsLiteral == "\"components\""

\* first index >= i whose character is in set cs, or Len(s) + 1
IndexOfAny(s, i, cs) ==
    IF i > Len(s) THEN i ELSE First(LAMBDA k : Ch(s, k) \in cs, i, Len(s))

\* after "components" at j: \s*:\s*\[[^\]]*\][^{}]*\} ; the index of the closing
\* brace of the match, or 0
MatchTail(s, j) ==
    LET closing(m) == IF Ch(s, m) = "}" THEN m ELSE 0
        bracket(k) == IF k > Len(s) THEN 0
                      ELSE closing(IndexOfAny(s, k + 1, {"{", "}"}))
        opening(b) == IF Ch(s, b) # "[" THEN 0
                      ELSE bracket(IndexOfAny(s, b + 1, {"]"}))
        colon(c) == IF Ch(s, c) # ":" THEN 0 ELSE opening(SkipWs(s, c + 1))
    IN  colon(SkipWs(s, j))

\* a match starting at the brace at i: [^{}]* is greedy, so the last
\* "components" of the brace-free run after i that lets the rest match is taken;
\* the index of the closing brace, or 0
MatchAt(s, i) ==
    LET n == Len(ComponentsLiteral)
        last(starts) == IF starts = {} THEN 0 ELSE MatchTail(s, Max(starts) + n)
        run(runEnd) == last({p \in (i + 1)..(runEnd - n + 1) :
                                /\ SubSeq(s, p, p + n - 1) = ComponentsLiteral
                                /\ MatchTail(s, p + n) > 0})
    IN  run(IndexOfAny(s, i + 1, {"{", "}"}) - 1)

\* text.match(jsonPattern): the matches from index i on, leftmost first, not
\* overlapping
RECURSIVE RegexMatches(_, _)
RegexMatches(s, i) ==
    LET rest(k, end) == <<SubSeq(s, k, end)>> \o RegexMatches(s, end + 1)
        from(k) == IF k > Len(s) THEN <<>> ELSE rest(k, MatchAt(s, k))
    IN  IF i > Len(s) THEN <<>>
        ELSE from(First(LAMBDA n : Ch(s, n) = "{" /\ MatchAt(s, n) > 0, i, Len(s)))

\* the for loop over the matches, from match i on: [hit, components]
RECURSIVE FirstParsedMatch(_, _)
FirstParsedMatch(matches, i) ==
    LET hit(components) ==
            IF Truthy(components) /\ components.j = "arr"
            THEN [hit |-> TRUE, components |-> components.a]
            ELSE FirstParsedMatch(matches, i + 1)
        try(parsed) == IF parsed.ok THEN hit(Member(parsed.v, "components"))
                       ELSE FirstParsedMatch(matches, i + 1)
    IN  IF i > Len(matches) THEN [hit |-> FALSE] ELSE try(JSONparse(matches[i]))

tryParseJsonWithComponents(text) ==
    LET whole(parsed) == IF parsed.ok THEN findComponents(parsed.v) ELSE <<>>
        matched(m) == IF m.hit THEN m.components ELSE whole(JSONparse(text))
    IN  matched(FirstParsedMatch(RegexMatches(text, 1), 1))

(***************************************************************************)
(* atob: base64 decoding of a text to the text of its bytes (printable     *)
(* ASCII and newline); [ok |-> FALSE] when atob throws.                    *)
(***************************************************************************)
Base64Alphabet == "ABCDEFGHIJKLMNOPQRSTUVWXYZabcdefghijklmnopqrstuvwxyz0123456789+/"

\* the characters of codes 32..95 and of codes 97..126, in order
AsciiLow == " !\"#$%&'()*+,-./0123456789:;<=>?@ABCDEFGHIJKLMNOPQRSTUVWXYZ[\\]^_"

AsciiHigh == "abcdefghijklmnopqrstuvwxyz{|}~"

Base64Chars == {Ch(Base64Alphabet, v) : v \in 1..64}

\* the value of each base64 digit
Base64Index == [c \in Base64Chars |-> (CHOOSE v \in 1..64 : Ch(Base64Alphabet, v) = c) - 1]

IsBase64Char(c) == c \in Base64Chars

Base64Val(c) == Base64Index[c]

\* String.fromCharCode of one decoded byte; the bytes outside the two tables
\* (control characters, code 96, codes above 126) are all written "?"
ByteChar(b) ==
    IF b = 10 THEN "\n"
    ELSE IF b >= 32 /\ b <= 95 THEN Ch(AsciiLow, b - 31)
    ELSE IF b >= 97 /\ b <= 126 THEN Ch(AsciiHigh, b - 96)
    ELSE "?"

\* s without ASCII whitespace
StripWs(s) ==
    Concat([k \in 1..Len(s) |-> IF IsWs(Ch(s, k)) THEN "" ELSE Ch(s, k)], 1, Len(s))

\* the bytes of the group of up to four base64 digits of s that starts at i
DecodeGroup(s, i) ==
    LET v(k) == Base64Val(Ch(s, i + k))
        three(n) == ByteChar(n \div 65536) \o ByteChar((n \div 256) % 256) \o ByteChar(n % 256)
        two(n) == ByteChar(n \div 256) \o ByteChar(n % 256)
        group(left) ==
            IF left >= 4 THEN three(v(0) * 262144 + v(1) * 4096 + v(2) * 64 + v(3))
            ELSE IF left = 3 THEN two((v(0) * 4096 + v(1) * 64 + v(2)) \div 4)
            ELSE ByteChar((v(0) * 64 + v(1)) \div 16)
    IN  group(Len(s) - i + 1)

\* the bytes of the base64 digits of s
DecodeGroups(s) ==
    Concat([g \in 1..((Len(s) + 3) \div 4) |-> DecodeGroup(s, 4 * g - 3)],
           1, (Len(s) + 3) \div 4)

atob(data) ==
    LET decode(u) ==
            IF Len(u) % 4 = 1 \/ \E i \in 1..Len(u) : ~IsBase64Char(Ch(u, i))
            THEN [ok |-> FALSE]
            ELSE [ok |-> TRUE, s |-> DecodeGroups(u)]
        unpad(t, n) ==
            decode(IF n % 4 = 0 /\ n >= 2 /\ SubSeq(t, n - 1, n) = "=="
                   THEN SubSeq(t, 1, n - 2)
                   ELSE IF n % 4 = 0 /\ n >= 1 /\ Ch(t, n) = "=" THEN SubSeq(t, 1, n - 1)
                   ELSE t)
        stripped(t) == unpad(t, Len(t))
    IN  stripped(StripWs(data))

(***************************************************************************)
(* JSON.stringify(value, null, 2) and the template-literal conversion      *)
(* String(value), as uiEventToMessage uses them.                           *)
(***************************************************************************)
\* a character escaped as inside a JSON string literal
QuoteChar(c) ==
    CASE c = "\"" -> "\\\""
      [] c = "\\" -> "\\\\"
      [] c = "\n" -> "\\n"
      [] c = "\t" -> "\\t"
      [] c = "\r" -> "\\r"
      [] OTHER -> c

\* the characters of s escaped as inside a JSON string literal
QuoteChars(s) == Concat([k \in 1..Len(s) |-> QuoteChar(Ch(s, k))], 1, Len(s))

Quote(s) == "\"" \o QuoteChars(s) \o "\""

\* value printed at indentation ind, nested levels indented by two more spaces
RECURSIVE Stringify(_, _), StringifyMembers(_, _, _), StringifyElements(_, _, _)
Stringify(x, ind) ==
    CASE x.j = "null" -> "null"
      [] x.j = "bool" -> IF x.b THEN "true" ELSE "false"
      [] x.j = "num" -> ToString(x.n)
      [] x.j = "str" -> Quote(x.s)
      [] x.j = "arr" ->
           IF Len(x.a) = 0 THEN "[]"
           ELSE "[\n" \o StringifyElements(x.a, 1, ind \o "  ") \o "\n" \o ind \o "]"
      [] x.j = "obj" ->
           IF Len(x.o) = 0 THEN "{}"
           ELSE "{\n" \o StringifyMembers(x.o, 1, ind \o "  ") \o "\n" \o ind \o "}"

StringifyMembers(o, i, ind) ==
    ind \o Quote(o[i].k) \o ": " \o Stringify(o[i].v, ind)
        \o (IF i < Len(o) THEN ",\n" \o StringifyMembers(o, i + 1, ind) ELSE "")

StringifyElements(a, i, ind) ==
    ind \o Stringify(a[i], ind)
        \o (IF i < Len(a) THEN ",\n" \o StringifyElements(a, i + 1, ind) ELSE "")

\* JSON.stringify(x, null, 2)
JSONstringify(x) == Stringify(x, "")

\* `${x}`: String(x)
RECURSIVE JsString(_), JsJoin(_, _)
JsString(x) ==
    CASE x.j = "null" -> "null"
      [] x.j = "bool" -> IF x.b THEN "true" ELSE "false"
      [] x.j = "num" -> ToString(x.n)
      [] x.j = "str" -> x.s
      [] x.j = "arr" -> JsJoin(x.a, 1)
      [] x.j = "obj" -> "[object Object]"

\* Array.prototype.join(','): null elements print as the empty string
JsJoin(a, i) ==
    IF i > Len(a) THEN ""
    ELSE (IF a[i].j = "null" THEN "" ELSE JsString(a[i]))
         \o (IF i < Len(a) THEN "," \o JsJoin(a, i + 1) ELSE "")

(***************************************************************************)
(* UiEvent and uiEventToMessage (types.ts).                                *)
(***************************************************************************)
FormSubmit(action_id, data) ==
    [action |-> "form_submit", action_id |-> action_id, data |-> data]
ButtonClick(action_id) == [action |-> "button_click", action_id |-> action_id]
InputChange(name, value) == [action |-> "input_change", name |-> name, value |-> value]
TabChange(index) == [action |-> "tab_change", index |-> index]

\* uiEventToMessage with the values passed through JSON string escaping
uiEventToMessageEscaped(event) ==
    CASE event.action = "form_submit" ->
           "[UI Event: Form submitted]\nAction: " \o QuoteChars(event.action_id)
               \o "\nData:\n" \o JSONstringify(event.data)
      [] event.action = "button_click" ->
           "[UI Event: Button clicked]\nAction: " \o QuoteChars(event.action_id)
      [] event.action = "input_change" ->
           "[UI Event: Input changed]\nField: " \o QuoteChars(event.name)
               \o "\nValue: " \o QuoteChars(JsString(event.value))
      [] event.action = "tab_change" ->
           "[UI Event: Tab changed]\nIndex: " \o ToString(event.index)

uiEventToMessage(event) ==
    CASE event.action = "form_submit" ->
           "[UI Event: Form submitted]\nAction: " \o event.action_id
               \o "\nData:\n" \o JSONstringify(event.data)
      [] event.action = "button_click" ->
           "[UI Event: Button clicked]\nAction: " \o event.action_id
      [] event.action = "input_change" ->
           "[UI Event: Input changed]\nField: " \o event.name
               \o "\nValue: " \o JsString(event.value)
      [] event.action = "tab_change" ->
           "[UI Event: Tab changed]\nIndex: " \o ToString(event.index)

(***************************************************************************)
(* Inputs of findComponents: JSON values nested up to MaxDepth below the   *)
(* root, with `components` keys holding arrays (empty or not) and          *)
(* non-arrays, next to other keys, in objects and in arrays.               *)
(***************************************************************************)
MaxDepth == 2

CompX == JObj(<<Prop("type", JStr("text"))>>)
CompY == JObj(<<Prop("type", JStr("badge"))>>)

FindLeaves == {JNull, JArr(<<>>), JArr(<<CompX>>), JArr(<<CompY>>)}

\* values nested d levels deep: an object with one key, or with a
\* `components` key (an empty array or a string) before another key
RECURSIVE FindLevel(_)
FindLevel(d) ==
    IF d = 0 THEN FindLeaves
    ELSE LET L == FindLevel(d - 1) IN
         FindLeaves
         \cup {JObj(<<Prop(k, v)>>) : k \in {"components", "a"}, v \in L}
         \cup {JObj(<<Prop("components", c), Prop("a", v)>>) : c \in {JArr(<<>>), JStr("s")}, v \in L}

\* what stands next to a nested value in the root
FindSiblings ==
    { JNull,
      JArr(<<CompY>>),
      JObj(<<Prop("components", JArr(<<>>))>>),
      JObj(<<Prop("components", JArr(<<CompY>>))>>),
      JObj(<<Prop("a", JObj(<<Prop("components", JArr(<<CompY>>))>>))>>) }

FindRoots(depth) ==
    LET deep == FindLevel(depth) IN
    deep
    \cup {JObj(<<Prop("a", v), Prop("b", w)>>) : v \in deep, w \in FindSiblings}
    \cup {JObj(<<Prop("a", w), Prop("b", v)>>) : v \in deep, w \in FindSiblings}
    \cup {JArr(<<v, w>>) : v \in deep, w \in FindSiblings}
    \cup {JObj(<<Prop("components", v), Prop("a", w)>>) : v \in deep, w \in FindSiblings}
    \cup {JObj(<<Prop("a", w), Prop("components", v)>>) : v \in deep, w \in FindSiblings}

FindInit == fnArg \in FindRoots(MaxDepth) /\ fnOut = Pending /\ AppIdle /\ RenderIdle /\ RaceIdle /\ CanvasIdle

\* one call findComponents(fnArg)
FindApply ==
    /\ fnOut = Pending
    /\ fnOut' = [st |-> "done", res |-> findComponents(fnArg)]
    /\ UNCHANGED <<fnArg, appVars, renderVars, raceVars, canvasVars>>

SpecFind == FindInit /\ [][FindApply]_vars

(***************************************************************************)
(* C1: what findComponents returns.                                        *)
(***************************************************************************)
\* an object carrying an array-valued `components` key
IsCarrier(x) == HasKey(x, "components") /\ Get(x, "components").j = "arr"

CarrierArray(x) == Get(x, "components").a

\* every node of x in depth-first preorder, an object before its values
RECURSIVE Preorder(_), PreorderAll(_, _)
Preorder(x) ==
    <<x>> \o (IF IsObjectLike(x) THEN PreorderAll(ObjectValues(x), 1) ELSE <<>>)

PreorderAll(values, i) ==
    IF i > Len(values) THEN <<>>
    ELSE Preorder(values[i]) \o PreorderAll(values, i + 1)

FirstCarrierArray(x) ==
    LET pre == Preorder(x)
        idx == {i \in 1..Len(pre) : IsCarrier(pre[i])}
    IN  IF idx = {} THEN <<>> ELSE CarrierArray(pre[Min(idx)])

\* the arrays of the carriers of x in depth-first order, a carrier's own
\* values not being visited
RECURSIVE CarrierArrays(_), CarrierArraysAll(_, _)
CarrierArrays(x) ==
    IF ~IsObjectLike(x) THEN <<>>
    ELSE IF IsCarrier(x) THEN <<CarrierArray(x)>>
    ELSE CarrierArraysAll(ObjectValues(x), 1)

CarrierArraysAll(values, i) ==
    IF i > Len(values) THEN <<>>
    ELSE CarrierArrays(values[i]) \o CarrierArraysAll(values, i + 1)

FirstNonEmpty(arrays) ==
    LET idx == {i \in 1..Len(arrays) : Len(arrays[i]) > 0}
    IN  IF idx = {} THEN <<>> ELSE arrays[Min(idx)]

\* C1 as stated: findComponents(O) is the array of the first array-valued
\* `components` key met in a depth-first traversal of O, returned whether it is
\* empty or not, and the empty array when O has no such key.
C1_FirstMatchReturned ==
    fnOut.st = "done" => fnOut.res = FirstCarrierArray(fnArg)

\* C1 amended: when O itself carries a `components` array, findComponents(O) is
\* that array, empty or not; otherwise it is the first non-empty array among
\* the carriers met depth-first, where the values of a carrier are not searched
\* and a carrier with an empty array is passed over for its later siblings; it
\* is empty when there is no such non-empty array.
C1_FirstNonEmptyCarrier ==
    fnOut.st = "done" =>
        fnOut.res = IF IsObjectLike(fnArg) /\ IsCarrier(fnArg)
                    THEN CarrierArray(fnArg)
                    ELSE FirstNonEmpty(CarrierArrays(fnArg))

\* C1 witness: a nested carrier with an empty array was met first and a later
\* sibling's non-empty array was returned.
C1_Witness ==
    /\ fnOut.st = "done"
    /\ ~IsCarrier(fnArg)
    /\ Len(CarrierArrays(fnArg)) >= 2
    /\ CarrierArrays(fnArg)[1] = <<>>
    /\ fnOut.res # <<>>

(***************************************************************************)
(* Inputs of uiEventToMessage: the four UiEvent variants, with action ids, *)
(* field names and values that hold quotes, newlines and protocol text.    *)
(***************************************************************************)
MaxTabIndex == 3

ActionIds == {"submit_x", "form_submit", "", "a b", "x\"y\nAction: z"}

FormDatas ==
    { JObj(<<>>),
      JObj(<<Prop("name", JStr("Al"))>>),
      JObj(<<Prop("name", JStr("Al")), Prop("agree", JStr("on"))>>),
      JObj(<<Prop("q", JStr("a\"b\\c"))>>),
      JObj(<<Prop("tags", JArr(<<JStr("x"), JNum(2)>>))>>) }

FieldNames == {"email", "x y", ""}

FieldValues ==
    {JStr("hi"), JStr(""), JStr("a\nb"), JNum(5), JBool(TRUE), JNull, JObj(<<>>)}

UiEvents ==
    {FormSubmit(a, d) : a \in ActionIds, d \in FormDatas}
    \cup {ButtonClick(a) : a \in ActionIds}
    \cup {InputChange(n, v) : n \in FieldNames, v \in FieldValues}
    \cup {TabChange(i) : i \in 0..MaxTabIndex}

EncodeInit == fnArg \in UiEvents /\ fnOut = Pending /\ AppIdle /\ RenderIdle /\ RaceIdle /\ CanvasIdle

\* one call uiEventToMessage(fnArg)
EncodeApply ==
    /\ fnOut = Pending
    /\ fnOut' = [st |-> "done", res |-> uiEventToMessage(fnArg)]
    /\ UNCHANGED <<fnArg, appVars, renderVars, raceVars, canvasVars>>

SpecEncode == EncodeInit /\ [][EncodeApply]_vars

(***************************************************************************)
(* C2: the encodings of uiEventToMessage.                                  *)
(***************************************************************************)
StartsWith(s, p) == Len(s) >= Len(p) /\ SubSeq(s, 1, Len(p)) = p

After(s, p) == SubSeq(s, Len(p) + 1, Len(s))

\* s is p followed by exactly t
IsPrefixThen(s, p, t) == StartsWith(s, p) /\ After(s, p) = t

C2_Table ==
    { <<ButtonClick("submit_x"), "[UI Event: Button clicked]\nAction: submit_x">>,
      <<ButtonClick(""), "[UI Event: Button clicked]\nAction: ">>,
      <<FormSubmit("submit_x", JObj(<<>>)),
        "[UI Event: Form submitted]\nAction: submit_x\nData:\n{}">>,
      <<FormSubmit("form_submit", JObj(<<Prop("name", JStr("Al"))>>)),
        "[UI Event: Form submitted]\nAction: form_submit\nData:\n{\n  \"name\": \"Al\"\n}">>,
      <<FormSubmit("a b", JObj(<<Prop("name", JStr("Al")), Prop("agree", JStr("on"))>>)),
        "[UI Event: Form submitted]\nAction: a b\nData:\n{\n  \"name\": \"Al\",\n  \"agree\": \"on\"\n}">>,
      <<FormSubmit("", JObj(<<Prop("tags", JArr(<<JStr("x"), JNum(2)>>))>>)),
        "[UI Event: Form submitted]\nAction: \nData:\n{\n  \"tags\": [\n    \"x\",\n    2\n  ]\n}">>,
      <<InputChange("email", JStr("hi")), "[UI Event: Input changed]\nField: email\nValue: hi">>,
      <<InputChange("x y", JNum(5)), "[UI Event: Input changed]\nField: x y\nValue: 5">>,
      <<InputChange("", JStr("a\nb")), "[UI Event: Input changed]\nField: \nValue: a\nb">>,
      <<TabChange(0), "[UI Event: Tab changed]\nIndex: 0">>,
      <<TabChange(2), "[UI Event: Tab changed]\nIndex: 2">> }

\* C2: uiEventToMessage gives, for each of the four variants, the header line
\* of the variant followed by the action id / field name / value / index
\* verbatim (no escaping), form_submit ending in the data as JSON that parses
\* back to the data, printed with 2-space indentation; button_click with action
\* id submit_x gives "[UI Event: Button clicked]\nAction: submit_x".
C2_Encodings ==
    fnOut.st = "done" =>
        LET e == fnArg
            m == fnOut.res
        IN  /\ \A c \in C2_Table : e = c[1] => m = c[2]
            /\ e.action = "button_click" =>
                   IsPrefixThen(m, "[UI Event: Button clicked]\nAction: ", e.action_id)
            /\ e.action = "form_submit" =>
                   LET head == "[UI Event: Form submitted]\nAction: " \o e.action_id \o "\nData:\n"
                   IN  /\ StartsWith(m, head)
                       /\ JSONparse(After(m, head)) = [ok |-> TRUE, v |-> e.data]
            /\ e.action = "input_change" =>
                   LET head == "[UI Event: Input changed]\nField: " \o e.name \o "\nValue: "
                   IN  /\ StartsWith(m, head)
                       /\ e.value.j = "str" => After(m, head) = e.value.s
            /\ e.action = "tab_change" =>
                   /\ StartsWith(m, "[UI Event: Tab changed]\nIndex: ")
                   /\ JSONparse(After(m, "[UI Event: Tab changed]\nIndex: ")) =
                          [ok |-> TRUE, v |-> JNum(e.index)]

\* C2 witness: the button_click event with action id submit_x has been encoded.
C2_Witness ==
    /\ fnOut.st = "done"
    /\ fnArg = ButtonClick("submit_x")
    /\ fnOut.res = "[UI Event: Button clicked]\nAction: submit_x"

(***************************************************************************)
(* App.tsx: processing of one SSE record by the two stream loops.  The     *)
(* local variables of a turn are uiComponents (the candidate tree) and     *)
(* fullText (the accumulated narrative); a step result also tells whether  *)
(* the record's try block threw, in which case setMessages is not reached. *)
(***************************************************************************)
UiMimeType == "application/vnd.adk.ui+json"

\* a.b?.c, undefined when a.b is null or undefined
OptMember(x, key) == IF Nullish(x) THEN JUndef ELSE Member(x, key)

\* the inline_data branch of handleSend: JSON.parse(atob(data)) and
\* findComponents inside their own try/catch; atob of a missing data
\* decodes the text "undefined", which is no base64 text
InlineComponents(inline) ==
    With(Member(inline, "data"), LAMBDA data :
    With(IF data.j = "str" THEN atob(data.s) ELSE [ok |-> FALSE], LAMBDA decoded :
    With(IF decoded.ok THEN JSONparse(decoded.s) ELSE ParseFail, LAMBDA parsed :
        IF parsed.ok THEN findComponents(parsed.v) ELSE <<>>)))

\* a text part of either handler: tryParseJsonWithComponents(part.text), then
\* the candidate tree is replaced or the text is collected
TextPart(text, st) ==
    IF ~Truthy(text) THEN st
    ELSE IF text.j # "str" THEN [st EXCEPT !.threw = TRUE]
    ELSE With(tryParseJsonWithComponents(text.s), LAMBDA parsed :
             IF Len(parsed) > 0 THEN [st EXCEPT !.ui = parsed]
             ELSE [st EXCEPT !.text = @ \o text.s])

\* the inline_data part of handleSend
InlinePart(inline, st) ==
    IF st.threw \/ OptMember(inline, "mime_type") # JStr(UiMimeType) THEN st
    ELSE With(InlineComponents(inline), LAMBDA found :
             IF Len(found) > 0 THEN [st EXCEPT !.ui = found] ELSE st)

\* handleSend: the loop over event.content.parts from part i on; st.text is
\* textParts.join('') (every pushed text is a non-empty string)
RECURSIVE SendParts(_, _, _)
SendParts(parts, i, st) ==
    IF i > Len(parts) \/ st.threw THEN st
    ELSE IF Nullish(parts[i]) THEN [st EXCEPT !.threw = TRUE]
    ELSE SendParts(parts, i + 1,
                   InlinePart(Member(parts[i], "inline_data"),
                              TextPart(Member(parts[i], "text"), st)))

\* handleSend: the loop over event.actions from action i on
RECURSIVE SendActions(_, _, _)
SendActions(actions, i, ui) ==
    IF i > Len(actions) THEN ui
    ELSE With(findComponents(actions[i]), LAMBDA found :
             SendActions(actions, i + 1, IF Len(found) > 0 THEN found ELSE ui))

\* the structural search of either handler: a non-empty result replaces the
\* candidate tree
Structural(event, ui0) ==
    With(findComponents(event), LAMBDA foundComponents :
        IF Len(foundComponents) > 0 THEN foundComponents ELSE ui0)

\* handleSend: if (event.content?.parts) for (const part of ...)
SendContent(parts, st) ==
    IF ~Truthy(parts) THEN st
    ELSE IF ~Iterable(parts) THEN [st EXCEPT !.threw = TRUE]
    ELSE SendParts(Iterate(parts), 1, st)

\* handleSend: if (event.actions) for (const action of event.actions)
SendEventActions(actions, st) ==
    IF st.threw \/ ~Truthy(actions) THEN st
    ELSE IF ~Iterable(actions) THEN [st EXCEPT !.threw = TRUE]
    ELSE [st EXCEPT !.ui = SendActions(Iterate(actions), 1, st.ui)]

\* handleSend with a try block around the whole loop: a record that does not
\* parse loses the candidate tree and the narrative
SendRecordLosing(data, ui0, text0) ==
    With(JSONparse(data), LAMBDA parse :
        IF ~parse.ok \/ Nullish(parse.v)
        THEN [ui |-> <<>>, text |-> "", threw |-> TRUE]
        ELSE With(SendEventActions(Member(parse.v, "actions"),
                      SendContent(OptMember(Member(parse.v, "content"), "parts"),
                                  [ui |-> Structural(parse.v, ui0),
                                   text |-> "", threw |-> FALSE])),
                  LAMBDA st :
                      IF st.threw
                      THEN [ui |-> st.ui, text |-> text0, threw |-> TRUE]
                      ELSE [ui |-> st.ui,
                            text |-> IF st.text # "" /\ Len(st.ui) = 0
                                     THEN text0 \o st.text ELSE text0,
                            threw |-> FALSE]))

\* handleSend: the try block of one record whose payload is data
SendRecord(data, ui0, text0) ==
    With(JSONparse(data), LAMBDA parse :
        IF ~parse.ok \/ Nullish(parse.v)
        THEN [ui |-> ui0, text |-> text0, threw |-> TRUE]
        ELSE With(SendEventActions(Member(parse.v, "actions"),
                      SendContent(OptMember(Member(parse.v, "content"), "parts"),
                                  [ui |-> Structural(parse.v, ui0),
                                   text |-> "", threw |-> FALSE])),
                  LAMBDA st :
                      IF st.threw
                      THEN [ui |-> st.ui, text |-> text0, threw |-> TRUE]
                      ELSE [ui |-> st.ui,
                            text |-> IF st.text # "" /\ Len(st.ui) = 0
                                     THEN text0 \o st.text ELSE text0,
                            threw |-> FALSE]))

\* handleUiAction: the loop over evt.content.parts from part i on; fullText
\* grows inside the loop
RECURSIVE UiActionParts(_, _, _)
UiActionParts(parts, i, st) ==
    IF i > Len(parts) \/ st.threw THEN st
    ELSE IF Nullish(parts[i]) THEN [st EXCEPT !.threw = TRUE]
    ELSE UiActionParts(parts, i + 1, TextPart(Member(parts[i], "text"), st))

\* handleUiAction: if (evt.content?.parts) for (const part of ...)
UiActionContent(parts, st) ==
    IF ~Truthy(parts) THEN st
    ELSE IF ~Iterable(parts) THEN [st EXCEPT !.threw = TRUE]
    ELSE UiActionParts(Iterate(parts), 1, st)

\* handleUiAction: the try block of one record whose payload is eventData
UiActionRecord(eventData, ui0, text0) ==
    With(JSONparse(eventData), LAMBDA parse :
        IF ~parse.ok \/ Nullish(parse.v)
        THEN [ui |-> ui0, text |-> text0, threw |-> TRUE]
        ELSE UiActionContent(OptMember(Member(parse.v, "content"), "parts"),
                             [ui |-> Structural(parse.v, ui0),
                              text |-> text0, threw |-> FALSE]))

(***************************************************************************)
(* adk-ui-renderer: ComponentRenderer's buttons and card forms.  A         *)
(* component is the parsed JSON object; the DOM state of a rendered        *)
(* component is the sequence of the values of its form controls, in        *)
(* document order ("on" / "" for a checked / unchecked checkbox).          *)
(***************************************************************************)
IsType(c, t) == Member(c, "type") = JStr(t)

\* x || [] for an optional child list
ChildList(x) == IF x.j = "arr" THEN x.a ELSE <<>>

\* the concatenation of the sequences seqs[i], ..., seqs[Len(seqs)]
RECURSIVE Flatten(_, _)
Flatten(seqs, i) == IF i > Len(seqs) THEN <<>> ELSE seqs[i] \o Flatten(seqs, i + 1)

\* the components ComponentRenderer renders below c, in document order
RenderedChildren(c) ==
    IF IsType(c, "card")
    THEN ChildList(Member(c, "content")) \o ChildList(Member(c, "footer"))
    ELSE IF IsType(c, "stack") \/ IsType(c, "grid") \/ IsType(c, "container")
    THEN ChildList(Member(c, "children"))
    ELSE IF IsType(c, "tabs") /\ ChildList(Member(c, "tabs")) # <<>>
    THEN ChildList(OptMember(ChildList(Member(c, "tabs"))[1], "content"))
    ELSE <<>>

\* the <input> elements rendered for c and its descendants, in document order
\* (the modelled trees hold text_input and switch inputs)
RECURSIVE Controls(_)
Controls(c) ==
    IF IsType(c, "text_input")
    THEN <<[type |-> "text", name |-> Member(c, "name"),
            default |-> IF Member(c, "default_value").j = "str"
                        THEN Member(c, "default_value").s ELSE ""]>>
    ELSE IF IsType(c, "switch")
    THEN <<[type |-> "checkbox", name |-> Member(c, "name"),
            default |-> IF Truthy(Member(c, "default_checked")) THEN "on" ELSE ""]>>
    ELSE LET kids == RenderedChildren(c) IN
         Flatten([i \in 1..Len(kids) |-> Controls(kids[i])], 1)

\* the <button type="button"> elements rendered for c and its descendants that
\* are not disabled: their components
RECURSIVE Buttons(_)
Buttons(c) ==
    IF IsType(c, "button")
    THEN IF Truthy(Member(c, "disabled")) THEN <<>> ELSE <<c>>
    ELSE LET kids == RenderedChildren(c) IN
         Flatten([i \in 1..Len(kids) |-> Buttons(kids[i])], 1)

\* case 'card': cards with inputs become forms
InputTypes == {"text_input", "number_input", "select", "switch"}

hasInputs(card) ==
    LET content == ChildList(Member(card, "content")) IN
    \E i \in 1..Len(content) : \E t \in InputTypes : IsType(content[i], t)

\* new FormData(form): the name/value entries of the successful controls, in
\* document order; a control without a name and an unchecked checkbox
\* contribute no entry
RECURSIVE FormEntries(_, _, _)
FormEntries(controls, values, i) ==
    IF i > Len(controls) THEN <<>>
    ELSE LET c == controls[i]
             named == c.name.j = "str" /\ c.name.s # ""
             on == c.type # "checkbox" \/ values[i] = "on"
         IN  (IF named /\ on THEN <<Prop(c.name.s, JStr(values[i]))>> ELSE <<>>)
                 \o FormEntries(controls, values, i + 1)

\* formData.forEach((value, key) => { data[key] = value }) from entry i on
RECURSIVE CollectData(_, _, _)
CollectData(entries, i, data) ==
    IF i > Len(entries) THEN data
    ELSE CollectData(entries, i + 1, PutProp(data, entries[i].k, entries[i].v))

\* the first button among [...component.content, ...(component.footer || [])]
SubmitBtn(card) ==
    LET kids == ChildList(Member(card, "content")) \o ChildList(Member(card, "footer"))
        at == {i \in 1..Len(kids) : IsType(kids[i], "button")}
    IN  IF at = {} THEN JUndef ELSE kids[Min(at)]

\* handleSubmit of a card rendered as a form: the event passed to onAction
handleSubmit(card, values) ==
    LET data == CollectData(FormEntries(Controls(card), values, 1), 1, <<>>)
        id == OptMember(SubmitBtn(card), "action_id")
    IN  FormSubmit(IF Truthy(id) THEN JsString(id) ELSE "form_submit", JObj(data))

\* formRef = useRef(null) is attached to no element: formRef.current stays null
\* in every ComponentRenderer
FormRefCurrent == JNull

\* handleButtonClick(actionId) in a ComponentRenderer whose form controls
\* hold values: the event passed to onAction
handleButtonClick(c, values, actionId) ==
    IF Truthy(FormRefCurrent)
    THEN FormSubmit(actionId,
                    JObj(CollectData(FormEntries(Controls(c), values, 1), 1, <<>>)))
    ELSE ButtonClick(actionId)

\* the default values of the form controls of c
DefaultValues(c) == [i \in 1..Len(Controls(c)) |-> Controls(c)[i].default]

\* the events a click on a rendered button of c passes to onAction
ClickEvents(c, values) ==
    {handleButtonClick(c, values, JsString(Member(Buttons(c)[i], "action_id"))) :
        i \in 1..Len(Buttons(c))}

\* the form of a card has no submit button (every button is type="button"):
\* its submit event fires only by implicit submission, Enter in its text field
\* when it has exactly one
ImplicitSubmission(card) ==
    /\ hasInputs(card)
    /\ Cardinality({i \in 1..Len(Controls(card)) : Controls(card)[i].type = "text"}) = 1

(***************************************************************************)
(* ComponentRenderer as a function of the component: what is rendered, or  *)
(* that rendering throws.  A rendered node holds the case that rendered    *)
(* it, the text of the placeholder, whether it has the red placeholder     *)
(* style, and the rendered children.                                       *)
(***************************************************************************)
\* the case labels of switch (component.type)
KnownTypes ==
    { "text", "button", "icon", "alert", "card", "stack", "text_input",
      "number_input", "select", "switch", "multi_select", "date_input", "slider",
      "progress", "grid", "list", "key_value", "tabs", "table", "chart",
      "code_block", "image", "badge", "divider", "container" }

\* the fields a case reads with .map, .some or a spread: a TypeError when one
\* of them is no array
ListFields(t) ==
    CASE t = "card" -> {"content"}
      [] t \in {"stack", "grid", "container"} -> {"children"}
      [] t \in {"select", "multi_select"} -> {"options"}
      [] t = "list" -> {"items"}
      [] t = "key_value" -> {"pairs"}
      [] t = "tabs" -> {"tabs"}
      [] t = "table" -> {"columns", "data"}
      [] t = "chart" -> {"data", "y_keys"}
      [] OTHER -> {}

\* rendering throws: without an error boundary nothing of the tree is shown
RenderThrown == [threw |-> TRUE]

\* the text React renders for the child {v}: a string or a number as text,
\* null, undefined and booleans as nothing (an object is no valid child)
ChildText(v) ==
    IF v.j = "str" THEN v.s ELSE IF v.j = "num" THEN ToString(v.n) ELSE ""

\* a default case that throws instead of rendering the placeholder
RenderUnknownThrows(type) == RenderThrown

\* default: the red placeholder <div>Unknown component: {type}</div>
RenderUnknown(type) ==
    IF IsObjectLike(type) THEN RenderThrown
    ELSE [threw |-> FALSE, kind |-> "unknown", flagged |-> TRUE,
          text |-> "Unknown component: " \o ChildText(type), kids |-> <<>>]

\* the node of case t with the rendered children kids
RenderedNode(t, kids) ==
    IF \E i \in 1..Len(kids) : kids[i].threw THEN RenderThrown
    ELSE [threw |-> FALSE, kind |-> t, flagged |-> FALSE, text |-> "", kids |-> kids]

RECURSIVE Render(_)
\* case t of the switch for the component c
RenderKnown(c, t) ==
    IF \E f \in ListFields(t) : Member(c, f).j # "arr" THEN RenderThrown
    ELSE IF t = "card" /\ Truthy(Member(c, "footer")) /\ Member(c, "footer").j # "arr"
    THEN RenderThrown
    ELSE IF t = "tabs" /\ (\/ Member(c, "tabs").a = <<>>
                           \/ OptMember(Member(c, "tabs").a[1], "content").j # "arr")
    THEN RenderThrown
    ELSE RenderedNode(t, [i \in 1..Len(RenderedChildren(c)) |->
                             Render(RenderedChildren(c)[i])])

\* <ComponentRenderer component={c} />
Render(c) ==
    IF Nullish(c) THEN RenderThrown
    ELSE IF Member(c, "type").j = "str" /\ Member(c, "type").s \in KnownTypes
    THEN RenderKnown(c, Member(c, "type").s)
    ELSE RenderUnknown(Member(c, "type"))

(***************************************************************************)
(* App.tsx: messages, the stream loop and the two turn handlers.           *)
(***************************************************************************)
Hostname == "localhost"

API_BASE == "http://" \o Hostname \o ":8080"

\* a Message; isStreaming is FALSE where the source leaves it undefined
Message(role, content, isStreaming) ==
    [role |-> role, content |-> content, isStreaming |-> isStreaming]

\* uiComponents.length > 0 ? { components: uiComponents } : text
Content(ui, text) ==
    IF Len(ui) > 0
    THEN JObj(<<Prop("components", JArr(ui))>>)
    ELSE JStr(text)

\* isUiResponse(content)
isUiResponse(content) == IsObjectLike(content) /\ HasKey(content, "components")

\* an updater that replaces the first agent message, streaming or not
UpdateFirstAgent(prev, content, isStreaming) ==
    LET at == {k \in 1..Len(prev) : prev[k].role = "agent"} IN
    IF at = {} THEN prev
    ELSE [prev EXCEPT ![Min(at)] = Message("agent", content, isStreaming)]

\* the setMessages updater of the stream loop, of the finalize step and of the
\* catch block: the first agent message that is streaming is replaced
UpdateStreaming(prev, content, isStreaming) ==
    LET at == {k \in 1..Len(prev) : prev[k].role = "agent" /\ prev[k].isStreaming} IN
    IF at = {} THEN prev
    ELSE [prev EXCEPT ![Min(at)] = Message("agent", content, isStreaming)]

\* an Error object
Err(name, message) == [name |-> name, message |-> message]

Alert(title, description) ==
    JObj(<<Prop("components", JArr(<<
        JObj(<<Prop("type", JStr("alert")), Prop("title", JStr(title)),
               Prop("description", JStr(description)),
               Prop("variant", JStr("error"))>>)>>))>>)

\* the alert of handleSend's catch block
SendAlert(error) ==
    Alert("Connection Error",
          "Could not connect to server: " \o error.message
              \o ". Make sure adk-server is running on " \o API_BASE)

\* the alert of handleUiAction's catch block
UiActionAlert(error) == Alert("Error", error.message)

\* String.prototype.trim
Trim(s) ==
    LET keep == {k \in 1..Len(s) : ~IsWs(Ch(s, k))} IN
    IF keep = {} THEN "" ELSE SubSeq(s, Min(keep), Max(keep))

\* buffer.split('\n')
SplitLines(s) ==
    LET nl == {k \in 1..Len(s) : Ch(s, k) = "\n"}
        n == Cardinality(nl)
        pos(j) == IF j = 0 THEN 0
                  ELSE IF j = n + 1 THEN Len(s) + 1
                  ELSE CHOOSE k \in nl : Cardinality({m \in nl : m < k}) = j - 1
    IN  [j \in 1..(n + 1) |-> SubSeq(s, pos(j - 1) + 1, pos(j) - 1)]

DataPrefix == "data: "

DoneMarker == "[DONE]"

\* the payloads of the lines, in order, that reach the try block of the loop:
\* the lines that start with "data: " and are not the [DONE] marker
Payloads(lines) ==
    LET at == {k \in 1..Len(lines) :
                  /\ StartsWith(lines[k], DataPrefix)
                  /\ After(lines[k], DataPrefix) # DoneMarker}
    IN  [j \in 1..Cardinality(at) |->
            After(lines[CHOOSE k \in at : Cardinality({m \in at : m < k}) = j - 1],
                  DataPrefix)]

\* the console.error calls of the loop over the payloads: one by the catch
\* block of handleSend for every record whose try block throws, none by the
\* empty catch block of handleUiAction
ConsoleErrors(h, payloads) ==
    IF h = "send"
    THEN Cardinality({k \in 1..Len(payloads) : SendRecord(payloads[k], <<>>, "").threw})
    ELSE 0

\* the number of payloads of the lines before the first [DONE] line, or -1
\* when no line is the [DONE] line
DoneOffset(lines) ==
    LET at == {k \in 1..Len(lines) :
                  /\ StartsWith(lines[k], DataPrefix)
                  /\ After(lines[k], DataPrefix) = DoneMarker}
    IN  IF at = {} THEN -1 ELSE Len(Payloads(SubSeq(lines, 1, Min(at) - 1)))

\* the for loop over the payloads of a chunk from payload i on, for the
\* handler h; st holds uiComponents, fullText and messages
RECURSIVE ProcessPayloads(_, _, _, _)
ProcessPayloads(h, payloads, i, st) ==
    IF i > Len(payloads) THEN st
    ELSE With(IF h = "send"
              THEN SendRecord(payloads[i], st.uiComponents, st.fullText)
              ELSE UiActionRecord(payloads[i], st.uiComponents, st.fullText),
              LAMBDA r :
                  ProcessPayloads(h, payloads, i + 1,
                      [uiComponents |-> r.ui,
                       fullText |-> r.text,
                       messages |-> IF r.threw THEN st.messages
                                    ELSE UpdateStreaming(st.messages,
                                                         Content(r.ui, r.text), TRUE)]))

\* the contents the loop over the payloads from payload i on passes to
\* setMessages, one for every record whose try block does not throw
RECURSIVE Notified(_, _, _, _, _)
Notified(h, payloads, i, ui, text) ==
    IF i > Len(payloads) THEN <<>>
    ELSE With(IF h = "send"
              THEN SendRecord(payloads[i], ui, text)
              ELSE UiActionRecord(payloads[i], ui, text),
              LAMBDA r :
                  (IF r.threw THEN <<>> ELSE <<Content(r.ui, r.text)>>)
                      \o Notified(h, payloads, i + 1, r.ui, r.text))

\* finalize: fullText || fallback
SendFallback == "No response"

UiActionFallback == "Form received!"

\* the fallback of handleSend for both handlers
FallbackOfSend(h) == SendFallback

Fallback(h) == IF h = "send" THEN SendFallback ELSE UiActionFallback

\* finalize that resolves to the narrative whatever the candidate tree
FinalContentNarrative(h, ui, text) == JStr(IF text # "" THEN text ELSE Fallback(h))

FinalContent(h, ui, text) ==
    Content(ui, IF text # "" THEN text ELSE Fallback(h))

\* data.id || data.session_id || `session-${Date.now()}` at clock value now
NewSessionId(data, now) ==
    IF Truthy(Member(data, "id")) THEN Member(data, "id")
    ELSE IF Truthy(Member(data, "session_id")) THEN Member(data, "session_id")
    ELSE JStr("session-" \o ToString(now))

(***************************************************************************)
(* The environment of the App: what the user types, the session response,  *)
(* the failures of fetch and read, and the chunks of the SSE body.         *)
(***************************************************************************)
\* the number of deliveries of the network that end a turn or carry a chunk
MaxDeliveries == 3

Inputs == {"", " ", "hi"}

Clock == 17

\* the values response.json() may give
SessionBodies == {JObj(<<Prop("id", JStr("s1"))>>)}

SessionErrors == {Err("Error", "Failed to create session")}

FetchErrors ==
    { Err("Error", "Server error: 500"), Err("Error", "No response body"),
      Err("AbortError", "The operation was aborted.") }

ReadErrors == {Err("TypeError", "network error"), Err("AbortError", "The operation was aborted.")}

TextAB == "{\"content\":{\"parts\":[{\"text\":\"A\"},{\"text\":\"B\"}]}}"

EmbeddedUi ==
    "{\"content\":{\"parts\":[{\"text\":"
        \o Quote("{\"components\":[{\"type\":\"text\",\"content\":\"Hi\"}]}") \o "}]}}"

ButtonUi ==
    "{\"ui\":{\"components\":[{\"type\":\"button\",\"label\":\"Go\",\"action_id\":\"go\"}]}}"

Malformed == "{\"content\":"

TextWithActions ==
    "{\"content\":{\"parts\":[{\"text\":\"D\"}]},\"actions\":{\"state_delta\":{}}}"

\* base64 of {"components":[{"type":"badge"}]}
InlineUi ==
    "{\"content\":{\"parts\":[{\"inline_data\":{\"mime_type\":\"" \o UiMimeType
        \o "\",\"data\":\"eyJjb21wb25lbnRzIjpbeyJ0eXBlIjoiYmFkZ2UifV19\"}}]}}"

\* a UiUpdate whose target_id is the id of no component of the payloads above
UpdateRemove == "{\"target_id\":\"ghost\",\"operation\":\"remove\"}"

DataLine(payload) == DataPrefix \o payload \o "\n"

\* the chunks reader.read() may deliver: whole lines, one or two
Chunks ==
    { DataLine(TextAB), DataLine(EmbeddedUi), DataLine(ButtonUi), DataLine(Malformed),
      DataLine(TextWithActions), DataLine(InlineUi), DataLine(DoneMarker),
      DataLine(UpdateRemove),
      DataLine(Malformed) \o DataLine(TextAB) }

(***************************************************************************)
(* The App as a state machine.  handleSend and handleUiAction run up to    *)
(* their first await that waits for the network in one step; every         *)
(* response of the network is one step.                                    *)
(***************************************************************************)
\* the events the rendered conversation can pass to handleUiAction: the
\* components of every agent message that holds a UiResponse are rendered
\* with onAction = handleUiAction
RenderedEvents(msgs) ==
    UNION { LET comps == ChildList(Member(msgs[k].content, "components")) IN
            UNION { ClickEvents(comps[i], DefaultValues(comps[i]))
                    \cup (IF IsType(comps[i], "card") /\ ImplicitSubmission(comps[i])
                          THEN {handleSubmit(comps[i], DefaultValues(comps[i]))}
                          ELSE {}) : i \in 1..Len(comps) }
          : k \in {n \in 1..Len(msgs) :
                      msgs[n].role = "agent" /\ isUiResponse(msgs[n].content)} }

\* onChange of the text input, which is disabled while isLoading
SetInput(text) ==
    /\ ~isLoading
    /\ ndeliveries < MaxDeliveries
    /\ input # text
    /\ input' = text
    /\ UNCHANGED <<messages, sessionId, isLoading, abortRef, aborted, handler, pc,
                   buffer, fullText, uiComponents, nturns, ndeliveries, records,
                   outcome, lastCall, doneAt,
                   consoleErrors, shown>>
    /\ UNCHANGED <<fnVars, renderVars, raceVars, canvasVars>>

\* the part of a handler after `const sid = await ensureSession()`: the
\* placeholder, the new AbortController (the one of turn number turn) and the
\* run request
OpenRequest(msgs, turn) ==
    /\ messages' = Append(msgs, Message("agent", JStr(""), TRUE))
    /\ abortRef' = JNum(turn)
    /\ pc' = "fetch"

\* the start of a turn by handler h with the user message text
StartTurn(h, text) ==
    /\ nturns' = nturns + 1
    /\ handler' = h
    /\ isLoading' = TRUE
    /\ buffer' = ""
    /\ fullText' = ""
    /\ uiComponents' = <<>>
    /\ records' = <<>>
    /\ doneAt' = -1
    /\ consoleErrors' = 0
    /\ shown' = <<>>
    /\ outcome' = [kind |-> "open"]
    /\ IF Truthy(sessionId)
       THEN OpenRequest(Append(messages, Message("user", JStr(text), FALSE)), nturns + 1)
       ELSE /\ messages' = Append(messages, Message("user", JStr(text), FALSE))
            /\ pc' = "session"
            /\ UNCHANGED abortRef
    /\ UNCHANGED <<sessionId, aborted, ndeliveries>>

\* a call of a handler that returns at its first line
Rejected ==
    UNCHANGED <<messages, input, sessionId, isLoading, abortRef, aborted, handler,
                pc, buffer, fullText, uiComponents, nturns, ndeliveries, records, outcome,
                doneAt,
                   consoleErrors, shown>>

\* handleSend: the send button and the Enter key of the input, both disabled
\* while isLoading
HandleSend ==
    /\ ~isLoading
    /\ ndeliveries < MaxDeliveries
    /\ UNCHANGED lastCall
    /\ IF Trim(input) = "" \/ isLoading
       THEN Rejected
       ELSE /\ input' = ""
            /\ StartTurn("send", input)
    /\ UNCHANGED <<fnVars, renderVars, raceVars, canvasVars>>

\* handleUiAction(event) for an event of the rendered components
HandleUiAction(event) ==
    /\ event \in RenderedEvents(messages)
    /\ ndeliveries < MaxDeliveries
    /\ lastCall' = IF pc = "read" THEN [handler |-> "ui", ctrl |-> abortRef]
                   ELSE lastCall
    /\ IF isLoading
       THEN Rejected
       ELSE /\ StartTurn("ui", uiEventToMessage(event))
            /\ UNCHANGED input
    /\ UNCHANGED <<fnVars, renderVars, raceVars, canvasVars>>

\* a catch block with no finally block: isLoading stays as it is
CatchNoFinally(h, error) ==
    /\ messages' = UpdateStreaming(messages, UiActionAlert(error), FALSE)
    /\ shown' = Append(shown, UiActionAlert(error))
    /\ outcome' = [kind |-> "caught", error |-> error]
    /\ isLoading' = isLoading
    /\ pc' = "idle"
    /\ ndeliveries' = ndeliveries + 1

\* the catch block and the finally block of handler h for error
Catch(h, error) ==
    /\ messages' = IF h = "send"
                   THEN IF error.name # "AbortError"
                        THEN UpdateStreaming(messages, SendAlert(error), FALSE)
                        ELSE messages
                   ELSE UpdateStreaming(messages, UiActionAlert(error), FALSE)
    /\ shown' = IF h = "send"
                 THEN IF error.name # "AbortError"
                      THEN Append(shown, SendAlert(error))
                      ELSE shown
                 ELSE Append(shown, UiActionAlert(error))
    /\ outcome' = [kind |-> "caught", error |-> error]
    /\ isLoading' = FALSE
    /\ pc' = "idle"
    /\ ndeliveries' = ndeliveries + 1

\* ensureSession: the session request answers with a JSON body
SessionCreated(body) ==
    /\ pc = "session"
    /\ sessionId' = NewSessionId(body, Clock)
    /\ OpenRequest(messages, nturns)
    /\ UNCHANGED <<input, isLoading, aborted, handler, buffer, fullText,
                   uiComponents, nturns, ndeliveries, records, outcome, lastCall, doneAt,
                   consoleErrors, shown>>
    /\ UNCHANGED <<fnVars, renderVars, raceVars, canvasVars>>

\* ensureSession throws: the request fails or answers with a non-success status
SessionFailed(error) ==
    /\ pc = "session"
    /\ ndeliveries < MaxDeliveries
    /\ Catch(handler, error)
    /\ UNCHANGED <<input, sessionId, abortRef, aborted, handler, buffer, fullText,
                   uiComponents, nturns, records, lastCall, doneAt,
                   consoleErrors>>
    /\ UNCHANGED <<fnVars, renderVars, raceVars, canvasVars>>

\* the run request answers with a success status and a body
FetchResolved ==
    /\ pc = "fetch"
    /\ pc' = "read"
    /\ UNCHANGED <<messages, input, sessionId, isLoading, abortRef, aborted, handler,
                   buffer, fullText, uiComponents, nturns, ndeliveries, records,
                   outcome, lastCall, doneAt,
                   consoleErrors, shown>>
    /\ UNCHANGED <<fnVars, renderVars, raceVars, canvasVars>>

\* the run request rejects, or answers with a non-success status or no body
FetchFailed(error) ==
    /\ pc = "fetch"
    /\ ndeliveries < MaxDeliveries
    /\ Catch(handler, error)
    /\ UNCHANGED <<input, sessionId, abortRef, aborted, handler, buffer, fullText,
                   uiComponents, nturns, records, lastCall, doneAt,
                   consoleErrors>>
    /\ UNCHANGED <<fnVars, renderVars, raceVars, canvasVars>>

\* one pass of the while loop: reader.read() delivers chunk
ReadChunk(chunk) ==
    /\ pc = "read"
    /\ ndeliveries < MaxDeliveries
    /\ ndeliveries' = ndeliveries + 1
    /\ LET update(payloads, st) ==
               /\ uiComponents' = st.uiComponents
               /\ fullText' = st.fullText
               /\ messages' = st.messages
               /\ records' = records \o payloads
               /\ consoleErrors' = consoleErrors + ConsoleErrors(handler, payloads)
               /\ shown' = shown \o Notified(handler, payloads, 1, uiComponents, fullText)
           process(payloads) ==
               update(payloads,
                      ProcessPayloads(handler, payloads, 1,
                                      [uiComponents |-> uiComponents,
                                       fullText |-> fullText,
                                       messages |-> messages]))
           mark(offset) ==
               doneAt' = IF doneAt < 0 /\ offset >= 0 THEN Len(records) + offset
                         ELSE doneAt
           split(lines) ==
               /\ buffer' = lines[Len(lines)]
               /\ process(Payloads(SubSeq(lines, 1, Len(lines) - 1)))
               /\ mark(DoneOffset(SubSeq(lines, 1, Len(lines) - 1)))
       IN  split(SplitLines(buffer \o chunk))
    /\ UNCHANGED <<input, sessionId, isLoading, abortRef, aborted, handler, pc,
                   nturns, outcome, lastCall>>
    /\ UNCHANGED <<fnVars, renderVars, raceVars, canvasVars>>

\* the finalize step and the finally block
Finalize ==
    /\ messages' = UpdateStreaming(messages,
                                   FinalContent(handler, uiComponents, fullText), FALSE)
    /\ outcome' = [kind |-> "final",
                   content |-> FinalContent(handler, uiComponents, fullText)]
    /\ shown' = Append(shown, FinalContent(handler, uiComponents, fullText))
    /\ isLoading' = FALSE
    /\ pc' = "idle"
    /\ UNCHANGED <<input, sessionId, abortRef, aborted, handler, buffer, fullText,
                   uiComponents, nturns, records, lastCall, doneAt,
                   consoleErrors>>
    /\ UNCHANGED <<fnVars, renderVars, raceVars, canvasVars>>

\* reader.read() reports done: the finalize step and the finally block
ReadDone ==
    /\ pc = "read"
    /\ ndeliveries < MaxDeliveries
    /\ ndeliveries' = ndeliveries + 1
    /\ Finalize

\* reader.read() rejects
ReadFailed(error) ==
    /\ pc = "read"
    /\ ndeliveries < MaxDeliveries
    /\ Catch(handler, error)
    /\ UNCHANGED <<input, sessionId, abortRef, aborted, handler, buffer, fullText,
                   uiComponents, nturns, records, lastCall, doneAt,
                   consoleErrors>>
    /\ UNCHANGED <<fnVars, renderVars, raceVars, canvasVars>>

\* the steps of ensureSession
SessionNext ==
    \/ \E body \in SessionBodies : SessionCreated(body)
    \/ \E error \in SessionErrors : SessionFailed(error)

\* the steps of a conversation whatever its session
TurnNext ==
    \/ \E text \in Inputs : SetInput(text)
    \/ HandleSend
    \/ \E event \in RenderedEvents(messages) : HandleUiAction(event)
    \/ FetchResolved
    \/ \E error \in FetchErrors : FetchFailed(error)
    \/ \E chunk \in Chunks : ReadChunk(chunk)
    \/ ReadDone
    \/ \E error \in ReadErrors : ReadFailed(error)

AppNext == SessionNext \/ TurnNext

\* the App after construction; the pure-function harness and the Renderer
\* harness stay idle
AppInit == AppIdle /\ FnIdle /\ RenderIdle /\ RaceIdle /\ CanvasIdle

SpecApp == AppInit /\ [][AppNext]_vars

\* the App after its first turn: "hi" was sent, the session s1 was created and
\* the stream delivered the ButtonUi record and ended, so that the reply renders
\* a button; SpecApp reaches this state by SetInput, HandleSend,
\* SessionCreated, FetchResolved, ReadChunk and ReadDone.  The conversation
\* that follows is left MaxDeliveries - 1 deliveries.
UiTurnInit ==
    /\ messages = <<Message("user", JStr("hi"), FALSE),
                    Message("agent",
                            FinalContent("send", SendRecord(ButtonUi, <<>>, "").ui, ""),
                            FALSE)>>
    /\ input = ""
    /\ sessionId = JStr("s1")
    /\ isLoading = FALSE
    /\ abortRef = JNum(1)
    /\ aborted = {}
    /\ handler = "send"
    /\ pc = "idle"
    /\ buffer = ""
    /\ fullText = ""
    /\ uiComponents = SendRecord(ButtonUi, <<>>, "").ui
    /\ nturns = 1
    /\ ndeliveries = 1
    /\ records = <<ButtonUi>>
    /\ outcome = [kind |-> "final",
                  content |-> FinalContent("send", SendRecord(ButtonUi, <<>>, "").ui, "")]
    /\ lastCall = [handler |-> "none"]
    /\ doneAt = -1
    /\ consoleErrors = 0
    /\ shown = <<Content(SendRecord(ButtonUi, <<>>, "").ui, ""),
                 FinalContent("send", SendRecord(ButtonUi, <<>>, "").ui, "")>>
    /\ FnIdle
    /\ RenderIdle
    /\ RaceIdle /\ CanvasIdle

\* the conversation from its second turn on
SpecUiTurn == UiTurnInit /\ [][TurnNext]_vars

(***************************************************************************)
(* Properties of the turns of the App.  records holds the payloads of the  *)
(* current turn that reached the try block of the stream loop, outcome the *)
(* way the turn ended.                                                     *)
(***************************************************************************)
\* event.content.parts and event.actions as sequences, empty when absent or
\* no list
EventParts(event) ==
    IF OptMember(Member(event, "content"), "parts").j = "arr"
    THEN OptMember(Member(event, "content"), "parts").a ELSE <<>>

EventActionList(event) ==
    IF Member(event, "actions").j = "arr" THEN Member(event, "actions").a ELSE <<>>

\* a part holds a UI payload: embedded in its text, or as inline data of the
\* UI mime type
PartYieldsUi(part) ==
    /\ ~Nullish(part)
    /\ \/ /\ Member(part, "text").j = "str"
          /\ Len(tryParseJsonWithComponents(Member(part, "text").s)) > 0
       \/ /\ OptMember(Member(part, "inline_data"), "mime_type") = JStr(UiMimeType)
          /\ Len(InlineComponents(Member(part, "inline_data"))) > 0

\* the record with this payload yields a non-empty components array from one
\* of the four sources: structure, text, side channel, actions
YieldsUi(payload) ==
    With(JSONparse(payload), LAMBDA parse :
        /\ parse.ok
        /\ ~Nullish(parse.v)
        /\ \/ Len(findComponents(parse.v)) > 0
           \/ \E i \in 1..Len(EventParts(parse.v)) : PartYieldsUi(EventParts(parse.v)[i])
           \/ \E i \in 1..Len(EventActionList(parse.v)) :
                  Len(findComponents(EventActionList(parse.v)[i])) > 0)

\* the texts of the text parts from part i on, concatenated
RECURSIVE PartsText(_, _)
PartsText(parts, i) ==
    IF i > Len(parts) THEN ""
    ELSE (IF ~Nullish(parts[i]) /\ Member(parts[i], "text").j = "str"
          THEN Member(parts[i], "text").s ELSE "")
             \o PartsText(parts, i + 1)

\* the text of the text parts of a record, empty when it does not parse
RecordText(payload) ==
    With(JSONparse(payload), LAMBDA parse :
        IF parse.ok /\ ~Nullish(parse.v) THEN PartsText(EventParts(parse.v), 1) ELSE "")

\* the text of the records from record i on, concatenated
RECURSIVE StreamText(_, _)
StreamText(rs, i) ==
    IF i > Len(rs) THEN "" ELSE RecordText(rs[i]) \o StreamText(rs, i + 1)

\* C3: when the stream of a turn has ended and one of its records yielded a
\* non-empty components array from any source, the final content of the turn
\* is a component tree, not text.
C3_UiWins ==
    (outcome.kind = "final" /\ \E k \in 1..Len(records) : YieldsUi(records[k]))
        => isUiResponse(outcome.content)

\* C4: when the stream of a turn has ended, none of its records held a UI
\* payload and its text parts held some text, the final content is the
\* concatenation of the texts of the text parts of the records that parse, in
\* order.
C4_TextConcatenated ==
    (/\ outcome.kind = "final"
     /\ \A k \in 1..Len(records) : ~YieldsUi(records[k])
     /\ StreamText(records, 1) # "")
        => outcome.content = JStr(StreamText(records, 1))

\* a turn has ended with neither a component tree nor narrative text
EmptyFinal == outcome.kind = "final" /\ Len(uiComponents) = 0 /\ fullText = ""

\* C5 as claimed: the final content of a turn that produced nothing is one
\* string whatever handler started the turn, the one of handleSend's
\* finalize step.
C5_OneFallback == EmptyFinal => outcome.content = JStr("No response")

\* C5: the final content of a turn that produced nothing is the fallback of
\* the handler that started it, "No response" for handleSend and
\* "Form received!" for handleUiAction, whatever the stream.
C5_FallbackOfHandler ==
    EmptyFinal =>
        outcome.content = JStr(IF handler = "send" THEN "No response" ELSE "Form received!")

\* a turn started by a UI event whose stream ended with no record at all
C5_Witness ==
    /\ EmptyFinal
    /\ handler = "ui"
    /\ records = <<>>
    /\ outcome.content = JStr("Form received!")

\* JSON.parse accepts the payload
Parses(payload) == JSONparse(payload).ok

\* C6: a read that delivers a record that is not valid JSON changes the
\* candidate tree, the narrative and the conversation exactly as the same
\* read without that record: not at all when it delivers nothing else, and as
\* the valid records alone when they come with it.
C6_MalformedDiscarded ==
    [][(/\ pc = "read"
        /\ \E k \in (Len(records) + 1)..Len(records') : ~Parses(records'[k]))
       => LET valid == SelectSeq(SubSeq(records', Len(records) + 1, Len(records')),
                                 Parses)
              st == ProcessPayloads(handler, valid, 1,
                                    [uiComponents |-> uiComponents,
                                     fullText |-> fullText,
                                     messages |-> messages])
          IN  /\ uiComponents' = st.uiComponents
              /\ fullText' = st.fullText
              /\ messages' = st.messages]_vars

\* a malformed record was followed by a valid one whose text was accumulated
C6_Witness ==
    /\ pc = "read"
    /\ fullText # ""
    /\ \E k \in 1..(Len(records) - 1) : ~Parses(records[k]) /\ Parses(records[k + 1])

\* C9: a handler called to start a turn while the stream of the previous turn
\* is open has that stream cancelled through its AbortController.
C9_PriorStreamCancelled == lastCall.handler = "ui" => lastCall.ctrl \in aborted

\* C10: a turn whose request or read ends with an AbortError has no alert
\* put into the conversation, whichever handler started it, and a turn that
\* ends there with another error has.
C10_AbortSuppressed ==
    [][(pc \in {"fetch", "read"} /\ outcome'.kind = "caught")
       => ((outcome'.error.name = "AbortError") <=> (messages' = messages))]_vars

\* the text t occurs in the text s
Occurs(t, s) == \E k \in 0..(Len(s) - Len(t)) : SubSeq(s, k + 1, k + Len(t)) = t

\* content is a component tree of one alert of the error variant whose
\* description holds the text message
IsErrorAlert(content, message) ==
    /\ isUiResponse(content)
    /\ Get(content, "components").j = "arr"
    /\ Len(Get(content, "components").a) = 1
    /\ LET alert == Get(content, "components").a[1] IN
       /\ Member(alert, "type") = JStr("alert")
       /\ Member(alert, "variant") = JStr("error")
       /\ Member(alert, "description").j = "str"
       /\ Occurs(message, Member(alert, "description").s)

\* a turn has ended in the catch block with an error that is no abort
TransportFailure == outcome.kind = "caught" /\ outcome.error.name # "AbortError"

\* C11: after a turn has failed with an error that is no cancellation, at
\* whatever stage, the last message of the conversation is the agent message
\* of that turn and its content is an error alert that carries the message of
\* the error.
C11_FailureShown ==
    TransportFailure =>
        /\ Len(messages) > 0
        /\ messages[Len(messages)].role = "agent"
        /\ IsErrorAlert(messages[Len(messages)].content, outcome.error.message)

\* C12: a read after the [DONE] line of the stream, or one that delivers it,
\* processes the records that stand before that line and no record after it:
\* the candidate tree, the narrative and the conversation change as by the
\* records before [DONE] alone.
C12_DoneTerminates ==
    [][(/\ pc = "read"
        /\ doneAt' >= 0
        /\ Len(records') > Len(records))
       => LET st == ProcessPayloads(handler,
                                    SubSeq(records', Len(records) + 1, doneAt'), 1,
                                    [uiComponents |-> uiComponents,
                                     fullText |-> fullText,
                                     messages |-> messages])
          IN  /\ uiComponents' = st.uiComponents
              /\ fullText' = st.fullText
              /\ messages' = st.messages]_vars

\* type UiOperation
UiOperations == {"replace", "patch", "append", "remove"}

\* the ids of the components in the value x, at any depth
RECURSIVE IdsIn(_)
IdsIn(x) ==
    IF ~IsObjectLike(x) THEN {}
    ELSE (IF HasKey(x, "id") /\ Get(x, "id").j = "str" THEN {Get(x, "id").s} ELSE {})
             \cup UNION {IdsIn(ObjectValues(x)[i]) : i \in 1..Len(ObjectValues(x))}

\* the payload is a UiUpdate whose target_id is the id of no component of tree
UnmatchedUpdate(payload, tree) ==
    With(JSONparse(payload), LAMBDA parse :
        /\ parse.ok
        /\ HasKey(parse.v, "target_id")
        /\ Get(parse.v, "target_id").j = "str"
        /\ Member(parse.v, "operation") \in {JStr(op) : op \in UiOperations}
        /\ Get(parse.v, "target_id").s \notin IdsIn(JArr(tree)))

\* C13: a read that delivers one record, a UiUpdate whose target_id matches no
\* id of the rendered tree, leaves the tree as it is, gives a warning (a
\* console.error call, the only warning channel of the stream loop) and
\* leaves the handler reading the stream.
C13_UnmatchedUpdateWarns ==
    [][(/\ pc = "read"
        /\ Len(records') = Len(records) + 1
        /\ UnmatchedUpdate(records'[Len(records')], uiComponents))
       => (/\ uiComponents' = uiComponents
           /\ consoleErrors' > consoleErrors
           /\ pc' = "read")]_vars

\* the array a as a one-element sequence when it is not empty
NonEmpty(a) == IF Len(a) > 0 THEN <<a>> ELSE <<>>

\* the non-empty components arrays of the text and of the inline data of a part
PartFound(part) ==
    IF Nullish(part) THEN <<>>
    ELSE (IF Member(part, "text").j = "str"
          THEN NonEmpty(tryParseJsonWithComponents(Member(part, "text").s)) ELSE <<>>)
         \o (IF OptMember(Member(part, "inline_data"), "mime_type") = JStr(UiMimeType)
             THEN NonEmpty(InlineComponents(Member(part, "inline_data"))) ELSE <<>>)

\* the non-empty components arrays of the values from value i on, each searched
\* by the operator Found
RECURSIVE FoundFrom(_, _, _)
FoundFrom(Found(_), values, i) ==
    IF i > Len(values) THEN <<>>
    ELSE Found(values[i]) \o FoundFrom(Found, values, i + 1)

\* the non-empty components arrays a record yields, in the order of their
\* discovery: the structure of the event, its parts in order, its actions in
\* order
Discovered(payload) ==
    With(JSONparse(payload), LAMBDA parse :
        IF ~parse.ok \/ Nullish(parse.v) THEN <<>>
        ELSE NonEmpty(findComponents(parse.v))
                 \o FoundFrom(PartFound, EventParts(parse.v), 1)
                 \o FoundFrom(LAMBDA action : NonEmpty(findComponents(action)),
                              EventActionList(parse.v), 1))

\* the arrays the records from record i on yield, in order
RECURSIVE DiscoveredFrom(_, _)
DiscoveredFrom(rs, i) ==
    IF i > Len(rs) THEN <<>> ELSE Discovered(rs[i]) \o DiscoveredFrom(rs, i + 1)

\* the candidate tree after records that yield the arrays found
LastOf(found, tree) == IF found = <<>> THEN tree ELSE found[Len(found)]

\* C15: a read leaves as candidate tree the last non-empty components array
\* its records yield, whole and alone, and leaves the candidate tree as it was
\* when its records yield none.
C15_LastFoundWins ==
    [][(pc = "read" /\ Len(records') > Len(records))
       => uiComponents' = LastOf(DiscoveredFrom(records', Len(records) + 1),
                                 uiComponents)]_vars

(***************************************************************************)
(* The Renderer as a state machine: one component is rendered with an      *)
(* onAction that records its events; the user types, toggles, clicks and   *)
(* submits.                                                                *)
(***************************************************************************)
MaxEvents == 2

TextInput(name) ==
    JObj(<<Prop("type", JStr("text_input")), Prop("name", JStr(name)),
           Prop("label", JStr("Label"))>>)

Switch(name, checked) ==
    JObj(<<Prop("type", JStr("switch")), Prop("name", JStr(name)),
           Prop("label", JStr("Label")), Prop("default_checked", JBool(checked))>>)

Button(action_id) ==
    JObj(<<Prop("type", JStr("button")), Prop("label", JStr("Label")),
           Prop("action_id", JStr(action_id))>>)

Text(content) == JObj(<<Prop("type", JStr("text")), Prop("content", JStr(content))>>)

Card(content) == JObj(<<Prop("type", JStr("card")), Prop("content", JArr(content))>>)

CardWithFooter(content, footer) ==
    JObj(<<Prop("type", JStr("card")), Prop("content", JArr(content)),
           Prop("footer", JArr(footer))>>)

Stack(children) ==
    JObj(<<Prop("type", JStr("stack")), Prop("direction", JStr("vertical")),
           Prop("children", JArr(children))>>)

RenderedComponents ==
    { Button("go"),
      Stack(<<Text("t"), Button("go")>>),
      Card(<<Text("t"), Button("ok")>>),
      Card(<<TextInput("a"), Switch("s", FALSE)>>),
      CardWithFooter(<<TextInput("a")>>, <<Button("save")>>),
      CardWithFooter(<<TextInput("a"), Button("cancel")>>, <<Button("save")>>),
      CardWithFooter(<<TextInput("a"), Switch("s", TRUE)>>, <<Button("")>>),
      CardWithFooter(<<TextInput("a"), TextInput("b")>>, <<Button("save")>>) }

TypedTexts == {"", "bob"}

RenderInit ==
    /\ component \in RenderedComponents
    /\ formValues = DefaultValues(component)
    /\ dispatched = <<>>
    /\ activeTab = 0
    /\ FnIdle
    /\ AppIdle
    /\ RaceIdle /\ CanvasIdle

\* the user edits the text field that is control i
TypeText(i, text) ==
    /\ i \in 1..Len(Controls(component))
    /\ Controls(component)[i].type = "text"
    /\ formValues[i] # text
    /\ formValues' = [formValues EXCEPT ![i] = text]
    /\ UNCHANGED <<component, dispatched, activeTab, fnVars, appVars, raceVars, canvasVars>>

\* the user toggles the checkbox that is control i
ToggleSwitch(i) ==
    /\ i \in 1..Len(Controls(component))
    /\ Controls(component)[i].type = "checkbox"
    /\ formValues' = [formValues EXCEPT ![i] = IF @ = "on" THEN "" ELSE "on"]
    /\ UNCHANGED <<component, dispatched, activeTab, fnVars, appVars, raceVars, canvasVars>>

\* onClick of rendered button b: handleButtonClick(component.action_id); the
\* record of the event keeps how it arose and the values of the controls then
ClickButton(b) ==
    /\ b \in 1..Len(Buttons(component))
    /\ Len(dispatched) < MaxEvents
    /\ dispatched' = Append(dispatched,
           [event |-> handleButtonClick(component, formValues,
                                        JsString(Member(Buttons(component)[b], "action_id"))),
            via |-> "click",
            button |-> Buttons(component)[b],
            values |-> formValues])
    /\ UNCHANGED <<component, formValues, activeTab, fnVars, appVars, raceVars, canvasVars>>

\* onSubmit of the form of a card: handleSubmit
SubmitForm ==
    /\ IsType(component, "card")
    /\ ImplicitSubmission(component)
    /\ Len(dispatched) < MaxEvents
    /\ dispatched' = Append(dispatched,
           [event |-> handleSubmit(component, formValues),
            via |-> "submit",
            button |-> JUndef,
            values |-> formValues])
    /\ UNCHANGED <<component, formValues, activeTab, fnVars, appVars, raceVars, canvasVars>>

RenderNext ==
    \/ \E i \in 1..2, text \in TypedTexts : TypeText(i, text)
    \/ \E i \in 1..2 : ToggleSwitch(i)
    \/ \E b \in 1..2 : ClickButton(b)
    \/ SubmitForm

SpecRender == RenderInit /\ [][RenderNext]_vars

(***************************************************************************)
(* Properties of the events the Renderer dispatches.                       *)
(***************************************************************************)
\* C7: a submit of a card form dispatches a form_submit event whose data has,
\* for every input of the card, a key that is the input's name, with the
\* entered text for a text input, and whose action_id is that of the first
\* button among content and footer, or "form_submit" without such a button.
C7_SubmitCarriesInputs ==
    \A k \in 1..Len(dispatched) :
        dispatched[k].via = "submit" =>
            LET e == dispatched[k].event
                controls == Controls(component)
                first == SubmitBtn(component)
            IN  /\ e.action = "form_submit"
                /\ \A i \in 1..Len(controls) :
                       /\ HasKey(e.data, controls[i].name.s)
                       /\ controls[i].type = "text"
                              => Get(e.data, controls[i].name.s)
                                     = JStr(dispatched[k].values[i])
                /\ e.action_id = IF Nullish(first) THEN "form_submit"
                                 ELSE JsString(Member(first, "action_id"))

\* C8: a click on a button inside a form (a card with inputs) dispatches a
\* form_submit event with the button's action_id and the values of the form's
\* named inputs; a click on a button outside a form dispatches a button_click
\* event with the button's action_id.
C8_ClickInFormSubmits ==
    \A k \in 1..Len(dispatched) :
        dispatched[k].via = "click" =>
            LET id == JsString(Member(dispatched[k].button, "action_id"))
                data == CollectData(FormEntries(Controls(component),
                                                dispatched[k].values, 1), 1, <<>>)
            IN  dispatched[k].event =
                    IF IsType(component, "card") /\ hasInputs(component)
                    THEN FormSubmit(id, JObj(data))
                    ELSE ButtonClick(id)

(***************************************************************************)
(* Inputs of ComponentRenderer: trees nested up to MaxDepth below the      *)
(* root, with components of unknown types as roots, as only children, next *)
(* to siblings, and in the content and the footer of cards, in stacks and  *)
(* in tabs.                                                                *)
(***************************************************************************)
Unknown(type) == JObj(<<Prop("type", JStr(type))>>)

Tabs(content) ==
    JObj(<<Prop("type", JStr("tabs")),
           Prop("tabs", JArr(<<JObj(<<Prop("label", JStr("Tab")),
                                      Prop("content", JArr(content))>>)>>))>>)

DrawLeaves ==
    { Text("t"), Button("go"), Unknown("gauge"), Unknown("Text"),
      JObj(<<Prop("type", JStr("panel")), Prop("children", JArr(<<Text("t")>>))>>) }

DrawSiblings == {Text("t"), Unknown("gauge")}

\* the parents of the child list kids
DrawParents(kids) ==
    {Card(kids), CardWithFooter(<<Text("t")>>, kids), Stack(kids), Tabs(kids)}

RECURSIVE DrawLevel(_)
DrawLevel(d) ==
    IF d = 0 THEN DrawLeaves
    ELSE LET L == DrawLevel(d - 1) IN
         DrawLeaves
         \cup UNION {DrawParents(<<v>>) : v \in L}
         \cup UNION {DrawParents(<<v, w>>) : v \in L, w \in DrawSiblings}

DrawInit == fnArg \in DrawLevel(MaxDepth) /\ fnOut = Pending /\ AppIdle /\ RenderIdle /\ RaceIdle /\ CanvasIdle

\* the component fnArg is rendered
DrawApply ==
    /\ fnOut = Pending
    /\ fnOut' = [st |-> "done", res |-> Render(fnArg)]
    /\ UNCHANGED <<fnArg, appVars, renderVars, raceVars, canvasVars>>

SpecDraw == DrawInit /\ [][DrawApply]_vars

(***************************************************************************)
(* C14: what is rendered for a component of an unknown type.               *)
(***************************************************************************)
\* the type of c is a text that is no case label
UnknownType(c) == Member(c, "type").j = "str" /\ Member(c, "type").s \notin KnownTypes

\* a component of an unknown type is in the tree c where it is rendered
RECURSIVE HasUnknown(_)
HasUnknown(c) ==
    \/ UnknownType(c)
    \/ \E i \in 1..Len(RenderedChildren(c)) : HasUnknown(RenderedChildren(c)[i])

\* the rendered node out shows the tree c: a flagged placeholder with the
\* name of the type for a component of an unknown type, and for any other
\* component its own node with every child shown in turn
RECURSIVE Shows(_, _)
Shows(c, out) ==
    /\ ~out.threw
    /\ IF UnknownType(c)
       THEN /\ out.kind = "unknown"
            /\ out.flagged
            /\ Occurs(Member(c, "type").s, out.text)
       ELSE /\ out.kind = Member(c, "type").s
            /\ ~out.flagged
            /\ Len(out.kids) = Len(RenderedChildren(c))
            /\ \A i \in 1..Len(out.kids) : Shows(RenderedChildren(c)[i], out.kids[i])

BadgeBase64 == "eyJjb21wb25lbnRzIjpbeyJ0eXBlIjoiYmFkZ2UifV19"

AlertJson == "{\"components\":[{\"type\":\"alert\"}]}"

TextPartJson(text) == "{\"text\":" \o Quote(text) \o "}"

InlinePartJson ==
    "{\"inline_data\":{\"mime_type\":\"" \o UiMimeType \o "\",\"data\":\""
        \o BadgeBase64 \o "\"}}"

PartsJson(parts) == "\"content\":{\"parts\":[" \o parts \o "]}"

\* a components array in the event and one in the text of a part
StructThenText ==
    "{\"components\":[{\"type\":\"text\"}]," \o PartsJson(TextPartJson(AlertJson)) \o "}"

\* a side-channel part before a part whose text holds a payload
InlineThenText == "{" \o PartsJson(InlinePartJson \o "," \o TextPartJson(AlertJson)) \o "}"

\* a part whose text holds a payload before a side-channel part
TextThenInline == "{" \o PartsJson(TextPartJson(AlertJson) \o "," \o InlinePartJson) \o "}"

\* a components array in the event and one in an action
StructThenActions ==
    "{\"components\":[{\"type\":\"text\"}],\"actions\":[{\"result\":" \o AlertJson \o "}]}"

\* a plain part, a side-channel part and a plain part
TextInlineText ==
    "{" \o PartsJson(TextPartJson("A") \o "," \o InlinePartJson \o "," \o TextPartJson("B"))
        \o "}"

\* a part whose text holds a payload between two plain parts
TextEmbeddedText ==
    "{" \o PartsJson(TextPartJson("A") \o "," \o TextPartJson(AlertJson) \o ","
                         \o TextPartJson("B")) \o "}"

RecordPayloads ==
    {TextAB, EmbeddedUi, ButtonUi, TextWithActions, InlineUi, UpdateRemove,
     StructThenText, InlineThenText, TextThenInline, StructThenActions,
     TextInlineText, TextEmbeddedText}

\* the candidate tree and the narrative a record may find: none, or those of
\* earlier records of the turn
RecordInputs ==
    [h : {"send", "ui"}, data : RecordPayloads,
     ui : {<<>>, <<Button("go")>>}, text : {"", "T"}]

RecordInit == fnArg \in RecordInputs /\ fnOut = Pending /\ AppIdle /\ RenderIdle /\ RaceIdle /\ CanvasIdle

\* the record fnArg.data is processed by the handler fnArg.h
RecordApply ==
    /\ fnOut = Pending
    /\ fnOut' = [st |-> "done",
                 res |-> IF fnArg.h = "send"
                         THEN SendRecord(fnArg.data, fnArg.ui, fnArg.text)
                         ELSE UiActionRecord(fnArg.data, fnArg.ui, fnArg.text)]
    /\ UNCHANGED <<fnArg, appVars, renderVars, raceVars, canvasVars>>

SpecRecord == RecordInit /\ [][RecordApply]_vars

(***************************************************************************)
(* C16: the order of the sources within one record.                        *)
(***************************************************************************)
\* the non-empty components array of the text of a part
TextFound(part) ==
    IF ~Nullish(part) /\ Member(part, "text").j = "str"
    THEN NonEmpty(tryParseJsonWithComponents(Member(part, "text").s)) ELSE <<>>

\* the non-empty components array of the side-channel data of a part
InlineFound(part) ==
    IF ~Nullish(part)
       /\ OptMember(Member(part, "inline_data"), "mime_type") = JStr(UiMimeType)
    THEN NonEmpty(InlineComponents(Member(part, "inline_data"))) ELSE <<>>

\* the non-empty components arrays a record yields, source by source: the
\* structure of the event, the texts of its parts, the side-channel data of
\* its parts, its actions
BySource(payload) ==
    With(JSONparse(payload), LAMBDA parse :
        IF ~parse.ok \/ Nullish(parse.v) THEN <<>>
        ELSE NonEmpty(findComponents(parse.v))
                 \o FoundFrom(TextFound, EventParts(parse.v), 1)
                 \o FoundFrom(InlineFound, EventParts(parse.v), 1)
                 \o FoundFrom(LAMBDA action : NonEmpty(findComponents(action)),
                              EventActionList(parse.v), 1))

\* C16: a record in which several sources yield a payload leaves as candidate
\* tree the payload of the latest source in the order structural search,
\* text-embedded, side-channel, actions: a side-channel payload overrides
\* every text-embedded payload of the record, whichever parts they sit in.
C16_SourceOrder ==
    (fnOut # Pending /\ Len(BySource(fnArg.data)) >= 2)
        => fnOut.res.ui = LastOf(BySource(fnArg.data), fnArg.ui)

(***************************************************************************)
(* C17: the text of the parts and the narrative.                           *)
(***************************************************************************)
\* the text of a part in which no embedded UI is found
PlainPart(part) ==
    IF ~Nullish(part) /\ Member(part, "text").j = "str" /\ TextFound(part) = <<>>
    THEN Member(part, "text").s ELSE ""

\* the texts of the parts from part i on in which no embedded UI is found, in
\* their order
RECURSIVE PlainFrom(_, _)
PlainFrom(parts, i) ==
    IF i > Len(parts) THEN "" ELSE PlainPart(parts[i]) \o PlainFrom(parts, i + 1)

PlainText(payload) ==
    With(JSONparse(payload), LAMBDA parse :
        IF ~parse.ok \/ Nullish(parse.v) THEN "" ELSE PlainFrom(EventParts(parse.v), 1))

\* C17: after a record the narrative is the narrative before it followed by
\* the texts of the parts of the record in which no embedded UI is found, in
\* their order, whatever UI the other parts, the other sources and the earlier
\* records hold.
C17_PlainTextAppended ==
    fnOut # Pending => fnOut.res.text = fnArg.text \o PlainText(fnArg.data)

(***************************************************************************)
(* C18: what the notifications of one turn show.                           *)
(***************************************************************************)
\* C18: once a notification of a turn, streaming or final, has shown a
\* component tree, every later notification of that turn shows a component
\* tree, never the narrative or the fallback string.
C18_TreeStays ==
    \A i \in 1..Len(shown) : \A k \in i..Len(shown) :
        isUiResponse(shown[i]) => isUiResponse(shown[k])

\* a turn of handleSend showed the narrative "AB", then a component tree, and
\* its final notification showed the tree although the narrative is not empty
C18_Witness ==
    /\ handler = "send"
    /\ outcome.kind = "final"
    /\ Len(shown) = 3
    /\ shown[1] = JStr("AB")
    /\ isUiResponse(shown[2])
    /\ shown[3] = Content(uiComponents, fullText)
    /\ fullText = "AB"
    /\ shown[3] = messages[Len(messages)].content

(***************************************************************************)
(* tryParseJsonWithComponents as a function of the text of a part.         *)
(***************************************************************************)
EmptyJson == "{\"components\":[]}"

\* matched by the pattern, not JSON
BrokenJson == "{\"components\":[1],}"

TextPieces == {EmptyJson, AlertJson, "{\"components\":[{\"type\":\"text\"}]}",
               BrokenJson, "{\"a\":1}", "hi"}

\* a piece, two pieces in prose, two pieces in a JSON array, a piece in a
\* JSON object
PartTexts ==
    TextPieces
    \cup {p \o " " \o q : p, q \in TextPieces}
    \cup {"[" \o p \o "," \o q \o "]" : p, q \in TextPieces}
    \cup {"{\"ui\":" \o p \o "}" : p \in TextPieces}

TryInit == fnArg \in PartTexts /\ fnOut = Pending /\ AppIdle /\ RenderIdle /\ RaceIdle /\ CanvasIdle

\* tryParseJsonWithComponents is called with the text fnArg
TryApply ==
    /\ fnOut = Pending
    /\ fnOut' = [st |-> "done", res |-> tryParseJsonWithComponents(fnArg)]
    /\ UNCHANGED <<fnArg, appVars, renderVars, raceVars, canvasVars>>

SpecTry == TryInit /\ [][TryApply]_vars

(***************************************************************************)
(* C19: the two strategies of tryParseJsonWithComponents.                  *)
(***************************************************************************)
\* the match parses as JSON and holds a non-empty components array
Accepted(match) ==
    With(JSONparse(match), LAMBDA parsed :
        /\ parsed.ok
        /\ Member(parsed.v, "components").j = "arr"
        /\ Len(Member(parsed.v, "components").a) > 0)

\* the result of the second strategy: findComponents on the whole text parsed
WholeText(text) ==
    With(JSONparse(text), LAMBDA parsed :
        IF parsed.ok THEN findComponents(parsed.v) ELSE <<>>)

\* the components array of the first accepted match, or the result of the
\* second strategy when no match is accepted
FirstAccepted(text, matches) ==
    LET at == {k \in 1..Len(matches) : Accepted(matches[k])} IN
    IF at = {} THEN WholeText(text)
    ELSE Member(JSONparse(matches[Min(at)]).v, "components").a

\* C19: tryParseJsonWithComponents(text) returns the components array of the
\* first regex match that parses as JSON and holds a non-empty components
\* array, and the result of findComponents on the whole text parsed as JSON
\* when no match does; it returns the empty array only when both fail.
C19_FirstNonEmptyMatch ==
    fnOut # Pending => fnOut.res = FirstAccepted(fnArg, RegexMatches(fnArg, 1))

(***************************************************************************)
(* C20: a record that parses is processed to its end.                      *)
(***************************************************************************)
\* C20: a read that delivers one record whose body parses as JSON notifies
\* the consumer once for it, and when no UI has been found the narrative has
\* grown by the plain text of the record, whatever the shape of its fields.
C20_RecordCompleted ==
    [][(/\ pc = "read"
        /\ Len(records') = Len(records) + 1
        /\ JSONparse(records'[Len(records')]).ok)
       => (/\ Len(shown') = Len(shown) + 1
           /\ uiComponents' = <<>>
                  => fullText' = fullText \o PlainText(records'[Len(records')]))]_vars

(***************************************************************************)
(* App.tsx with its renders: handleSend and handleUiAction are closures of *)
(* a render of App and read the isLoading and the input of that render;    *)
(* setIsLoading and setInput change the state, which the handlers see only *)
(* after the next render.  Every handler call that passes the guard has    *)
(* its own stream loop, with its own uiComponents and fullText.  The       *)
(* conversation starts after a first turn that rendered a button.          *)
(***************************************************************************)
\* the handler calls that may pass the guard
MaxStarts == 2

StreamPayloads == {TextAB, ButtonUi}

\* the streams whose request is open: the handler awaits fetch or reader.read()
OpenStreams == {t \in 1..Len(streams) : streams[t].pc \in {"fetch", "read"}}

GuardInit == UiTurnInit

\* React renders App: the handlers are created anew over the current state
Rerender ==
    /\ rendered # [isLoading |-> isLoading, input |-> input]
    /\ rendered' = [isLoading |-> isLoading, input |-> input]
    /\ UNCHANGED <<streams, appVars, fnVars, renderVars, canvasVars>>

\* onChange of the input box, disabled while the rendered isLoading
TypeInput(text) ==
    /\ ~rendered.isLoading
    /\ input # text
    /\ input' = text
    /\ UNCHANGED <<messages, sessionId, isLoading, abortRef, aborted, handler, pc,
                   buffer, fullText, uiComponents, nturns, ndeliveries, records,
                   outcome, lastCall, doneAt, consoleErrors, shown>>
    /\ UNCHANGED <<raceVars, fnVars, renderVars, canvasVars>>

\* a handler call that passed its guard: the user message, setIsLoading(true),
\* ensureSession() with the session at hand, the placeholder and the request
Started(h, text) ==
    /\ Len(streams) < MaxStarts
    /\ messages' = messages \o <<Message("user", JStr(text), FALSE),
                                 Message("agent", JStr(""), TRUE)>>
    /\ isLoading' = TRUE
    /\ nturns' = nturns + 1
    /\ abortRef' = JNum(nturns + 1)
    /\ streams' = Append(streams, [h |-> h, pc |-> "fetch", ui |-> <<>>, text |-> ""])
    /\ UNCHANGED <<sessionId, aborted, handler, pc, buffer, fullText, uiComponents,
                   ndeliveries, records, outcome, lastCall, doneAt, consoleErrors,
                   shown>>

\* handleSend of the latest render; the send button and the input box are
\* disabled while the rendered isLoading
SendTriggered ==
    /\ ~rendered.isLoading
    /\ ~(Trim(rendered.input) = "" \/ rendered.isLoading)
    /\ input' = ""
    /\ Started("send", rendered.input)
    /\ UNCHANGED <<rendered, fnVars, renderVars, canvasVars>>

\* handleUiAction of the latest render for an event of the rendered components
UiActionTriggered(event) ==
    /\ event \in RenderedEvents(messages)
    /\ ~rendered.isLoading
    /\ Started("ui", uiEventToMessage(event))
    /\ UNCHANGED <<input, rendered, fnVars, renderVars, canvasVars>>

\* the run request of stream t answers with a success status and a body
StreamOpened(t) ==
    /\ t \in 1..Len(streams)
    /\ streams[t].pc = "fetch"
    /\ streams' = [streams EXCEPT ![t].pc = "read"]
    /\ UNCHANGED <<rendered, appVars, fnVars, renderVars, canvasVars>>

\* reader.read() of stream t delivers one record
StreamRecord(t, payload) ==
    /\ t \in 1..Len(streams)
    /\ streams[t].pc = "read"
    /\ ndeliveries < MaxDeliveries
    /\ ndeliveries' = ndeliveries + 1
    /\ LET update(r) ==
               /\ streams' = [streams EXCEPT ![t].ui = r.ui, ![t].text = r.text]
               /\ messages' = IF r.threw THEN messages
                              ELSE UpdateStreaming(messages, Content(r.ui, r.text), TRUE)
       IN  update(IF streams[t].h = "send"
                  THEN SendRecord(payload, streams[t].ui, streams[t].text)
                  ELSE UiActionRecord(payload, streams[t].ui, streams[t].text))
    /\ UNCHANGED <<input, sessionId, isLoading, abortRef, aborted, handler, pc, buffer,
                   fullText, uiComponents, nturns, records, outcome, lastCall, doneAt,
                   consoleErrors, shown>>
    /\ UNCHANGED <<rendered, fnVars, renderVars, canvasVars>>

\* reader.read() of stream t reports done: the finalize step and the finally
\* block
StreamDone(t) ==
    /\ t \in 1..Len(streams)
    /\ streams[t].pc = "read"
    /\ streams' = [streams EXCEPT ![t].pc = "done"]
    /\ messages' = UpdateStreaming(messages,
                       FinalContent(streams[t].h, streams[t].ui, streams[t].text), FALSE)
    /\ isLoading' = FALSE
    /\ UNCHANGED <<input, sessionId, abortRef, aborted, handler, pc, buffer, fullText,
                   uiComponents, nturns, ndeliveries, records, outcome, lastCall,
                   doneAt, consoleErrors, shown>>
    /\ UNCHANGED <<rendered, fnVars, renderVars, canvasVars>>

GuardNext ==
    \/ Rerender
    \/ \E text \in Inputs : TypeInput(text)
    \/ SendTriggered
    \/ \E event \in RenderedEvents(messages) : UiActionTriggered(event)
    \/ \E t \in 1..MaxStarts : StreamOpened(t)
    \/ \E t \in 1..MaxStarts, payload \in StreamPayloads : StreamRecord(t, payload)
    \/ \E t \in 1..MaxStarts : StreamDone(t)

SpecGuard == GuardInit /\ [][GuardNext]_vars

(***************************************************************************)
(* C21: the turns in flight.                                               *)
(***************************************************************************)
\* C21: at every moment at most one stream is open, whatever the order of
\* the calls of handleSend and handleUiAction and of the renders of App.
C21_OneStreamOpen == Cardinality(OpenStreams) <= 1

(***************************************************************************)
(* The App whose requests terminate: the session request and the run       *)
(* request are answered or fail, and the body of the response ends or its  *)
(* read fails, also after the last chunk the environment delivers.         *)
(***************************************************************************)
\* reader.read() reports done after the last chunk of the environment
ReadLast ==
    /\ pc = "read"
    /\ ndeliveries >= MaxDeliveries
    /\ UNCHANGED ndeliveries
    /\ Finalize

\* the steps that end a request
SessionEnds == SessionNext

FetchEnds == FetchResolved \/ \E error \in FetchErrors : FetchFailed(error)

ReadEnds == ReadDone \/ ReadLast \/ \E error \in ReadErrors : ReadFailed(error)

LiveNext == AppNext \/ ReadLast

SpecAppLive ==
    /\ AppInit
    /\ [][LiveNext]_vars
    /\ WF_vars(SessionEnds)
    /\ WF_vars(FetchEnds)
    /\ WF_vars(ReadEnds)

(***************************************************************************)
(* C22: isLoading after a turn.                                            *)
(***************************************************************************)
\* C22: when the requests of a turn terminate, whatever the outcome of the
\* turn, isLoading returns to false, and a handleSend called with isLoading
\* false and an input that is not blank starts a new turn.
C22_LoadingEnds ==
    /\ isLoading ~> ~isLoading
    /\ [][(HandleSend /\ ~isLoading /\ Trim(input) # "")
          => (nturns' = nturns + 1 /\ isLoading')]_vars

\* a second turn was started by handleSend after the first turn ended with a
\* session provisioning failure
C22_Witness ==
    /\ nturns = 2
    /\ handler = "send"
    /\ isLoading
    /\ pc = "session"
    /\ sessionId = [j |-> "null"]
    /\ Len(messages) = 2

(***************************************************************************)
(* C23: the messages after a turn.                                         *)
(***************************************************************************)
\* C23: whenever isLoading is false, no message of the conversation is
\* streaming: a turn that ended, in whatever way, left its agent message
\* terminal.
C23_NoStreamingWhenIdle ==
    ~isLoading => \A k \in 1..Len(messages) : ~messages[k].isStreaming

(***************************************************************************)
(* C24: the messages a step may change.                                    *)
(***************************************************************************)
\* C24: no step removes a message, and a step changes a message of the
\* conversation only if it is an agent message that is streaming: an agent
\* message that is not streaming keeps its content through every later
\* record, finalize step, catch block and turn.
C24_FinalizedFrozen ==
    [][/\ Len(messages') >= Len(messages)
       /\ \A k \in 1..Len(messages) :
              messages'[k] # messages[k]
                  => (messages[k].role = "agent" /\ messages[k].isStreaming)]_vars

\* the first turn was finalized with the fallback and a record of the second
\* turn was written into the second agent message
C24_Witness ==
    /\ nturns = 2
    /\ Len(messages) = 4
    /\ messages[2] = Message("agent", JStr(SendFallback), FALSE)
    /\ messages[4] = Message("agent", JStr("AB"), TRUE)

(***************************************************************************)
(* ComponentRenderer, case 'card': hasInputs as a function of the card.    *)
(***************************************************************************)
\* the input variants of the Component type
SchemaInputs ==
    {"text_input", "number_input", "date_input", "slider", "select", "multi_select",
     "switch"}

Input(type) ==
    JObj(<<Prop("type", JStr(type)), Prop("name", JStr("n")), Prop("label", JStr("Label"))>>)

CardChildren == {Input(t) : t \in SchemaInputs} \cup {Text("t"), Button("go")}

\* the cards with one or two children
Cards == {Card(<<c>>) : c \in CardChildren} \cup {Card(<<c, d>>) : c, d \in CardChildren}

CardInit == fnArg \in Cards /\ fnOut = Pending /\ AppIdle /\ RenderIdle /\ RaceIdle /\ CanvasIdle

\* the card fnArg is rendered: a form when hasInputs
CardApply ==
    /\ fnOut = Pending
    /\ fnOut' = [st |-> "done", res |-> IF hasInputs(fnArg) THEN "form" ELSE "div"]
    /\ UNCHANGED <<fnArg, appVars, renderVars, raceVars, canvasVars>>

SpecCard == CardInit /\ [][CardApply]_vars

(***************************************************************************)
(* C25: the cards that are forms.                                          *)
(***************************************************************************)
\* the card holds an input node of some variant of the schema
HoldsInput(card) ==
    \E i \in 1..Len(ChildList(Member(card, "content"))) :
        \E t \in SchemaInputs : IsType(ChildList(Member(card, "content"))[i], t)

\* C25: a card is rendered as a form exactly when it holds an input node, of
\* whichever input variant of the schema.
C25_FormIffInput ==
    fnOut # Pending => (fnOut.res = "form" <=> HoldsInput(fnArg))

(***************************************************************************)
(* App.tsx: the stream loops of handleSend and of handleUiAction run on    *)
(* the same records.  fnArg is the stream so far; fnOut holds, for each    *)
(* loop, its uiComponents, its fullText and the contents it has shown.     *)
(***************************************************************************)
\* a part with text before a part that is null
PartialParts == "{" \o PartsJson(TextPartJson("A") \o ",null") \o "}"

\* records with no inline_data part and no actions field
PlainPayloads ==
    {TextAB, EmbeddedUi, ButtonUi, Malformed, UpdateRemove, StructThenText,
     TextEmbeddedText, PartialParts}

LoopStart == [ui |-> <<>>, text |-> "", shown |-> <<>>]

\* the loop of handler h in state loop processes the record payload
LoopRecord(h, payload, loop) ==
    With(IF h = "send" THEN SendRecord(payload, loop.ui, loop.text)
         ELSE UiActionRecord(payload, loop.ui, loop.text),
         LAMBDA r :
             [ui |-> r.ui, text |-> r.text,
              shown |-> IF r.threw THEN loop.shown
                        ELSE Append(loop.shown, Content(r.ui, r.text))])

\* the finalize step of handler h
LoopDone(h, loop) ==
    [loop EXCEPT !.shown = Append(@, FinalContent(h, loop.ui, loop.text))]

PairInit ==
    /\ fnArg = <<>>
    /\ fnOut = [st |-> "open", send |-> LoopStart, ui |-> LoopStart]
    /\ AppIdle /\ RenderIdle /\ RaceIdle /\ CanvasIdle

\* both streams deliver the record payload
PairRecord(payload) ==
    /\ fnOut.st = "open"
    /\ Len(fnArg) < MaxDeliveries
    /\ fnArg' = Append(fnArg, payload)
    /\ fnOut' = [fnOut EXCEPT !.send = LoopRecord("send", payload, @),
                              !.ui = LoopRecord("ui", payload, @)]
    /\ UNCHANGED <<appVars, renderVars, raceVars, canvasVars>>

\* both streams end
PairDone ==
    /\ fnOut.st = "open"
    /\ fnOut' = [st |-> "done", send |-> LoopDone("send", fnOut.send),
                 ui |-> LoopDone("ui", fnOut.ui)]
    /\ UNCHANGED <<fnArg, appVars, renderVars, raceVars, canvasVars>>

PairNext == PairDone \/ \E payload \in PlainPayloads : PairRecord(payload)

SpecPair == PairInit /\ [][PairNext]_vars

(***************************************************************************)
(* C26: the two handlers on the same stream.                               *)
(***************************************************************************)
\* one of the loops has a component tree or some narrative
Produced ==
    \/ fnOut.send.ui # <<>> \/ fnOut.send.text # ""
    \/ fnOut.ui.ui # <<>> \/ fnOut.ui.text # ""

\* the contents shown before the finalize step
Streamed(loop) ==
    IF fnOut.st = "open" THEN loop.shown ELSE SubSeq(loop.shown, 1, Len(loop.shown) - 1)

\* C26: on a stream without inline_data parts and actions fields a turn of
\* handleSend and a turn of handleUiAction show the same content after each
\* record, and the same final content when a component tree or some
\* narrative was produced.
C26_SameDisplay ==
    /\ Streamed(fnOut.send) = Streamed(fnOut.ui)
    /\ (fnOut.st = "done" /\ Produced)
           => fnOut.send.shown[Len(fnOut.send.shown)] = fnOut.ui.shown[Len(fnOut.ui.shown)]

(***************************************************************************)
(* App.tsx: the stream loop on a body cut into chunks.  fnArg holds the    *)
(* handler, the text of the whole body and the places where it is cut;     *)
(* fnOut holds the buffer, the locals of the loop, the records processed   *)
(* and the contents shown.                                                 *)
(***************************************************************************)
\* the records from record i on are processed by the loop of handler h
RECURSIVE LoopRecords(_, _, _, _)
LoopRecords(h, payloads, i, loop) ==
    IF i > Len(payloads) THEN loop
    ELSE LoopRecords(h, payloads, i + 1, LoopRecord(h, payloads[i], loop))

\* one pass of the while loop that forgets the incomplete last line
FeedChunkUnbuffered(h, feed, chunk) ==
    With(SplitLines(feed.buffer \o chunk), LAMBDA lines :
        With(Payloads(SubSeq(lines, 1, Len(lines) - 1)), LAMBDA payloads :
            [buffer |-> "",
             records |-> feed.records \o payloads,
             loop |-> LoopRecords(h, payloads, 1, feed.loop)]))

\* one pass of the while loop: buffer += chunk, the lines but the last are
\* processed, the last stays in the buffer
FeedChunk(h, feed, chunk) ==
    With(SplitLines(feed.buffer \o chunk), LAMBDA lines :
        With(Payloads(SubSeq(lines, 1, Len(lines) - 1)), LAMBDA payloads :
            [buffer |-> lines[Len(lines)],
             records |-> feed.records \o payloads,
             loop |-> LoopRecords(h, payloads, 1, feed.loop)]))

FeedStart == [buffer |-> "", records |-> <<>>, loop |-> LoopStart]

\* the bodies: two records; a line that is no data line, a record and the
\* [DONE] line; a record and an unterminated line
Bodies ==
    {DataLine(TextAB) \o DataLine(ButtonUi),
     "event: message\n" \o DataLine(TextAB) \o DataLine(DoneMarker),
     DataLine(EmbeddedUi) \o DataPrefix \o TextAB}

\* the length of the middle chunk of a body cut twice
MiddleChunk == 9

\* the places where a body of n characters is cut: one place, or two that
\* leave a middle chunk of one character or of MiddleChunk characters
Cuts(n) ==
    {<<i>> : i \in 0..n}
    \cup {<<i, i + 1>> : i \in 0..(n - 1)}
    \cup {<<i, i + MiddleChunk>> : i \in 0..(n - MiddleChunk)}

\* chunk k of the body text cut at cuts
ChunkOf(text, cuts, k) ==
    SubSeq(text, (IF k = 1 THEN 0 ELSE cuts[k - 1]) + 1,
           IF k > Len(cuts) THEN Len(text) ELSE cuts[k])

SplitInit ==
    /\ fnArg \in UNION {[h : {"send", "ui"}, text : {b}, cuts : Cuts(Len(b))] : b \in Bodies}
    /\ fnOut = [st |-> "read", next |-> 1, feed |-> FeedStart]
    /\ AppIdle /\ RenderIdle /\ RaceIdle /\ CanvasIdle

\* reader.read() delivers the next chunk
SplitChunk ==
    /\ fnOut.st = "read"
    /\ fnOut.next <= Len(fnArg.cuts) + 1
    /\ fnOut' = [fnOut EXCEPT
                    !.next = @ + 1,
                    !.feed = FeedChunk(fnArg.h, @,
                                       ChunkOf(fnArg.text, fnArg.cuts, fnOut.next))]
    /\ UNCHANGED <<fnArg, appVars, renderVars, raceVars, canvasVars>>

\* reader.read() reports done after the last chunk
SplitDone ==
    /\ fnOut.st = "read"
    /\ fnOut.next > Len(fnArg.cuts) + 1
    /\ fnOut' = [fnOut EXCEPT !.st = "done",
                              !.feed.loop = LoopDone(fnArg.h, @)]
    /\ UNCHANGED <<fnArg, appVars, renderVars, raceVars, canvasVars>>

SplitNext == SplitChunk \/ SplitDone

SpecSplit == SplitInit /\ [][SplitNext]_vars

(***************************************************************************)
(* C27: the chunk boundaries.                                              *)
(***************************************************************************)
\* the records of the lines of the body text that end with a newline
CompleteRecords(text) ==
    Payloads(SubSeq(SplitLines(text), 1, Len(SplitLines(text)) - 1))

\* C27: when the body has ended, the records processed are those of the
\* lines of the whole body that end with a newline, each once and in order,
\* and the contents shown and the final content are those of these records,
\* wherever the body was cut.
C27_CutsDoNotMatter ==
    fnOut.st = "done"
        => /\ fnOut.feed.records = CompleteRecords(fnArg.text)
           /\ fnOut.feed.loop =
                  LoopDone(fnArg.h,
                           LoopRecords(fnArg.h, CompleteRecords(fnArg.text), 1, LoopStart))

\* a body of two records whose first data line was cut inside its prefix and
\* again inside its payload; both records were shown, then the final content
C27_Witness ==
    /\ fnOut.st = "done"
    /\ fnArg.h = "send"
    /\ fnArg.text = DataLine(TextAB) \o DataLine(ButtonUi)
    /\ fnArg.cuts = <<3, 3 + MiddleChunk>>
    /\ fnOut.feed.records = <<TextAB, ButtonUi>>
    /\ Len(fnOut.feed.loop.shown) = 3
    /\ fnOut.feed.loop.shown[1] = JStr("AB")

(***************************************************************************)
(* C28: the tabs component (types.ts, case 'tabs') under streaming records *)
(* that replace the displayed tree (App.tsx, the message list).            *)
(***************************************************************************)
\* the content of one tab
TabContents == {<<Text("A")>>, <<Button("go")>>, <<>>}

\* a tabs component with one tab per content
TabsOf(contents) ==
    JObj(<<Prop("type", JStr("tabs")),
           Prop("tabs", JArr([k \in 1..Len(contents) |->
                                 JObj(<<Prop("label", JStr("Tab")),
                                        Prop("content", JArr(contents[k]))>>)]))>>)

\* the tabs components a record carries: one to MaxTabIndex tabs
TabsComponents ==
    UNION {{TabsOf(contents) : contents \in [1..n -> TabContents]} : n \in 1..MaxTabIndex}

\* component.tabs
TabList(c) == Get(c, "tabs").a

\* component.tabs[activeTab].content.map(...): the children rendered, or the
\* TypeError of reading .content of undefined
ActiveContent(c, active) ==
    IF active < Len(TabList(c))
    THEN [threw |-> FALSE, children |-> Get(TabList(c)[active + 1], "content").a]
    ELSE [threw |-> TRUE, children |-> <<>>]

\* the first render of the tabs component: React.useState(0)
TabsInit ==
    /\ component \in TabsComponents
    /\ activeTab = 0
    /\ formValues = <<>>
    /\ dispatched = <<>>
    /\ FnIdle
    /\ AppIdle
    /\ RaceIdle /\ CanvasIdle

\* onClick of the i-th tab button: setActiveTab(i); the buttons are those of
\* component.tabs.map, and there are none once the render has thrown
ClickTab(i) ==
    /\ ~ActiveContent(component, activeTab).threw
    /\ i < Len(TabList(component))
    /\ activeTab' = i
    /\ UNCHANGED <<component, formValues, dispatched, fnVars, appVars, raceVars, canvasVars>>

\* a streaming record replaces the displayed tree: the Renderer at the same
\* key gets the new component and keeps its state
ReplaceTree(c) ==
    /\ ~ActiveContent(component, activeTab).threw
    /\ component' = c
    /\ UNCHANGED <<activeTab, formValues, dispatched, fnVars, appVars, raceVars, canvasVars>>

TabsNext ==
    \/ \E i \in 0..(MaxTabIndex - 1) : ClickTab(i)
    \/ \E c \in TabsComponents : ReplaceTree(c)

SpecTabs == TabsInit /\ [][TabsNext]_vars

\* C28: the active tab index is a valid index into the tabs list of the
\* displayed component, and the content rendered is that of this tab.
C28_ActiveTabValid ==
    /\ activeTab < Len(TabList(component))
    /\ ~ActiveContent(component, activeTab).threw
    /\ ActiveContent(component, activeTab).children =
           Get(TabList(component)[activeTab + 1], "content").a

(***************************************************************************)
(* The studio canvas (Canvas.tsx): builds.                                 *)
(***************************************************************************)
MaxEdits == 2

MaxBuilds == 2

\* e.data of the done event of a build stream
BinaryPaths == {"/target/app"}

\* the variables of the agents graph
graphVars == <<agents, edges, selectedNodeId, lastCreated>>

\* updateAgent: storeUpdateAgent(id, updates); setBuiltBinaryPath(null)
UpdateAgent ==
    /\ edits < MaxEdits
    /\ edits' = edits + 1
    /\ builtBinaryPath' = [j |-> "null"]
    /\ UNCHANGED <<building, buildOutput, eventSources, builtEdits, graphVars>>
    /\ UNCHANGED <<fnVars, appVars, renderVars, raceVars>>

\* updateToolConfig: storeUpdateToolConfig(toolId, config); setBuiltBinaryPath(null)
UpdateToolConfig ==
    /\ edits < MaxEdits
    /\ edits' = edits + 1
    /\ builtBinaryPath' = [j |-> "null"]
    /\ UNCHANGED <<building, buildOutput, eventSources, builtEdits, graphVars>>
    /\ UNCHANGED <<fnVars, appVars, renderVars, raceVars>>

\* handleBuild, from the palette button (disabled while building) or from the
\* "Build Project" button shown while there is no built binary
HandleBuild ==
    /\ ~building \/ builtBinaryPath = [j |-> "null"]
    /\ Len(eventSources) < MaxBuilds
    /\ building' = TRUE
    /\ buildOutput' = [success |-> FALSE, path |-> [j |-> "null"]]
    /\ eventSources' = Append(eventSources, [open |-> TRUE, edits |-> edits])
    /\ UNCHANGED <<builtBinaryPath, edits, builtEdits, graphVars>>
    /\ UNCHANGED <<fnVars, appVars, renderVars, raceVars>>

\* the 'status' and 'output' listeners of the k-th stream
BuildOutputEvent(k) ==
    /\ k \in 1..Len(eventSources)
    /\ eventSources[k].open
    /\ buildOutput' = [success |-> FALSE, path |-> [j |-> "null"]]
    /\ UNCHANGED <<building, builtBinaryPath, eventSources, edits, builtEdits, graphVars>>
    /\ UNCHANGED <<fnVars, appVars, renderVars, raceVars>>

\* the 'done' listener of the k-th stream
BuildDone(k, path) ==
    /\ k \in 1..Len(eventSources)
    /\ eventSources[k].open
    /\ buildOutput' = [success |-> TRUE, path |-> JStr(path)]
    /\ builtBinaryPath' = JStr(path)
    /\ builtEdits' = eventSources[k].edits
    /\ building' = FALSE
    /\ eventSources' = [eventSources EXCEPT ![k].open = FALSE]
    /\ UNCHANGED <<edits, graphVars>>
    /\ UNCHANGED <<fnVars, appVars, renderVars, raceVars>>

\* the 'error' listener of the k-th stream
BuildErrorEvent(k) ==
    /\ k \in 1..Len(eventSources)
    /\ eventSources[k].open
    /\ buildOutput' = [success |-> FALSE, path |-> [j |-> "null"]]
    /\ building' = FALSE
    /\ eventSources' = [eventSources EXCEPT ![k].open = FALSE]
    /\ UNCHANGED <<builtBinaryPath, edits, builtEdits, graphVars>>
    /\ UNCHANGED <<fnVars, appVars, renderVars, raceVars>>

\* eventSource.onerror of the k-th stream
BuildOnError(k) ==
    /\ k \in 1..Len(eventSources)
    /\ eventSources[k].open
    /\ building' = FALSE
    /\ eventSources' = [eventSources EXCEPT ![k].open = FALSE]
    /\ UNCHANGED <<builtBinaryPath, buildOutput, edits, builtEdits, graphVars>>
    /\ UNCHANGED <<fnVars, appVars, renderVars, raceVars>>

BuildInit == AppIdle /\ FnIdle /\ RenderIdle /\ RaceIdle /\ CanvasIdle

BuildNext ==
    \/ UpdateAgent
    \/ UpdateToolConfig
    \/ HandleBuild
    \/ \E k \in 1..MaxBuilds : BuildOutputEvent(k)
    \/ \E k \in 1..MaxBuilds, path \in BinaryPaths : BuildDone(k, path)
    \/ \E k \in 1..MaxBuilds : BuildErrorEvent(k)
    \/ \E k \in 1..MaxBuilds : BuildOnError(k)

SpecBuild == BuildInit /\ [][BuildNext]_vars

\* C29: whenever there is a built binary, no agent or tool-config update
\* has been made since the build that produced it was started.
C29_BinaryIsCurrent ==
    builtBinaryPath # [j |-> "null"] => builtEdits = edits

(***************************************************************************)
(* The studio canvas (Canvas.tsx): the agents of the project.              *)
(***************************************************************************)
MaxCreates == 3

AgentTypes == {"llm", "router", "sequential", "loop", "parallel"}

\* the variables of the build
buildVars == <<building, builtBinaryPath, buildOutput, eventSources, edits, builtEdits>>

\* { sequential: 'seq', loop: 'loop', parallel: 'par', router: 'router' }[agentType] || 'agent'
Prefix(agentType) ==
    CASE agentType = "sequential" -> "seq"
      [] agentType = "loop" -> "loop"
      [] agentType = "parallel" -> "par"
      [] agentType = "router" -> "router"
      [] OTHER -> "agent"

\* `${prefix}_${agentCount + 1}`
AgentId(agentType, agentCount) == Prefix(agentType) \o "_" \o ToString(agentCount + 1)

IsContainer(agentType) == agentType \in {"sequential", "loop", "parallel"}

\* the default sub-agents of a container: `${id}_agent_1`, `${id}_agent_2`
SubIds(id) == <<id \o "_agent_1", id \o "_agent_2">>

\* the store's addAgent(id, agent)
AddAgent(all, id, agent) == (id :> agent) @@ all

\* the store's removeAgent(id)
RemoveAgent(all, id) == [k \in DOMAIN all \ {id} |-> all[k]]

\* the store's removeEdge(from, to)
RemoveEdge(es, from, to) == SelectSeq(es, LAMBDA e : ~(e.from = from /\ e.to = to))

\* the store's addEdge(from, to)
AddEdge(es, from, to) == Append(es, [from |-> from, to |-> to])

\* the addAgent calls of createAgent
CreatedAgents(all, agentType, id) ==
    IF IsContainer(agentType)
    THEN AddAgent(AddAgent(AddAgent(all, SubIds(id)[1], [type |-> "llm", sub_agents |-> <<>>]),
                           SubIds(id)[2], [type |-> "llm", sub_agents |-> <<>>]),
                  id, [type |-> agentType, sub_agents |-> SubIds(id)])
    ELSE AddAgent(all, id, [type |-> agentType, sub_agents |-> <<>>])

\* the ids createAgent passes to addAgent
CreatedIds(agentType, id) ==
    IF IsContainer(agentType) THEN {id, SubIds(id)[1], SubIds(id)[2]} ELSE {id}

\* edges.find(e => e.to === 'END')
EdgesToEnd(es) == SelectSeq(es, LAMBDA e : e.to = "END")

\* the new agent is inserted before END, or between START and END
InsertedEdges(es, id) ==
    IF EdgesToEnd(es) # <<>>
    THEN AddEdge(AddEdge(RemoveEdge(es, EdgesToEnd(es)[1].from, "END"),
                         EdgesToEnd(es)[1].from, id),
                 id, "END")
    ELSE AddEdge(AddEdge(es, "START", id), id, "END")

\* createAgent(agentType)
CreateAgent(agentType) ==
    /\ lastCreated.n < MaxCreates
    /\ agents' = CreatedAgents(agents, agentType,
                               AgentId(agentType, Cardinality(DOMAIN agents)))
    /\ edges' = InsertedEdges(edges, AgentId(agentType, Cardinality(DOMAIN agents)))
    /\ selectedNodeId' = JStr(AgentId(agentType, Cardinality(DOMAIN agents)))
    /\ lastCreated' =
           [n |-> lastCreated.n + 1,
            ids |-> CreatedIds(agentType, AgentId(agentType, Cardinality(DOMAIN agents))),
            existing |-> CreatedIds(agentType, AgentId(agentType, Cardinality(DOMAIN agents)))
                             \cap DOMAIN agents]
    /\ UNCHANGED buildVars
    /\ UNCHANGED <<fnVars, appVars, renderVars, raceVars>>

\* the nodes of the canvas: the agents that are no sub-agent of another
TopLevelAgents(all) ==
    {id \in DOMAIN all : \A p \in DOMAIN all :
        \A k \in 1..Len(all[p].sub_agents) : all[p].sub_agents[k] # id}

\* a node is deleted: onEdgesDelete for its edges, onNodesDelete for the node
DeleteNode(id) ==
    /\ id \in TopLevelAgents(agents)
    /\ agents' = RemoveAgent(agents, id)
    /\ edges' = SelectSeq(edges, LAMBDA e : e.from # id /\ e.to # id)
    /\ UNCHANGED <<selectedNodeId, lastCreated, buildVars>>
    /\ UNCHANGED <<fnVars, appVars, renderVars, raceVars>>

AgentsInit == AppIdle /\ FnIdle /\ RenderIdle /\ RaceIdle /\ CanvasIdle

AgentsNext ==
    \/ \E agentType \in AgentTypes : CreateAgent(agentType)
    \/ \E id \in DOMAIN agents : DeleteNode(id)

SpecAgents == AgentsInit /\ [][AgentsNext]_vars

\* C30: the ids createAgent gives the new agent and its default sub-agents
\* are not keys of currentProject.agents when it is called.
C30_FreshIds ==
    lastCreated.existing = {}

====
